---- MODULE Spec2Model ----
(***************************************************************************)
(* Board storage and index reconciliation of LANA (src-tauri/src/lib.rs). *)
(*                                                                         *)
(* The filesystem below the boards root is a set of directory paths and a  *)
(* map from board.json paths to file contents.  A path is a sequence of    *)
(* names relative to the root; a name (and so a board id and a board name) *)
(* is a sequence of one-character strings, so that the identifier          *)
(* validator and the id generator work on characters as the code does.     *)
(* Every command is one atomic action; I/O failures are not modelled.      *)
(***************************************************************************)
EXTENDS Integers, Sequences, FiniteSets, TLC

VARIABLES
  fs,         \* [dirs, files]: directories and board.json files below the root
  indexFile,  \* <root>/boards.json: [exists, wellformed, boards]
  clock,      \* the value now_millis() returns
  ret,        \* the last command: its name, arguments and result
  procs,      \* the calls in progress, step by step: process -> its position
  net         \* the requests sent to the network so far, oldest first

vars == <<fs, indexFile, clock, ret, procs, net>>

-----------------------------------------------------------------------------
(* Bounds *)

MaxClock == 2      \* now_millis() ranges over 1..MaxClock
MaxBoards == 1     \* Spec: a new board id is offered while fewer ids exist
MaxCdrBoards == 2  \* SpecCDR: create_board is offered while fewer ids exist
MaxStoredLen == 2  \* longest stored index drawn by the arbitrary-state specs
MaxIdLen == 3      \* SpecValidate: every string of up to MaxIdLen characters
MaxRequests == 1   \* SpecIds: fetch_link_metadata is offered while fewer were sent
MaxOrderClock == 3 \* SpecOrder: now_millis() ranges over 1..MaxOrderClock
MaxOrderBoards == 2 \* SpecOrder: create_board is offered while fewer ids exist

-----------------------------------------------------------------------------
(* Names *)

TRASH == <<"t", "r", "a", "s", "h">>
ASSETS == <<"a", "s", "s", "e", "t", "s">>
BOARD_JSON == <<"b", "o", "a", "r", "d", ".", "j", "s", "o", "n">>
BoardPrefix == <<"b", "o", "a", "r", "d", "-">>
Untitled == <<"U", "n", "t", "i", "t", "l", "e", "d">>

Lower == {"a", "b", "c", "d", "e", "f", "g", "h", "i", "j", "k", "l", "m",
          "n", "o", "p", "q", "r", "s", "t", "u", "v", "w", "x", "y", "z"}
Upper == {"A", "B", "C", "D", "E", "F", "G", "H", "I", "J", "K", "L", "M",
          "N", "O", "P", "Q", "R", "S", "T", "U", "V", "W", "X", "Y", "Z"}
DigitChar == <<"0", "1", "2", "3", "4", "5", "6", "7", "8", "9">>
DigitSet == {DigitChar[i] : i \in 1..10}

\* Option values: <<>> is None, <<v>> is Some(v).
None == <<>>
Some(v) == <<v>>

\* Results: the error strings of the commands; NoErr is Ok.
NoErr == "ok"
InvalidIdentifier == "invalid board id"
NotFound == "board not found"
NotFoundInTrash == "board not found in trash"
AlreadyExists == "board already exists"
AlreadyDeleted == "board is deleted"
IdMismatch == "board id mismatch"
MoveFailed == "move board to trash failed"
RestoreFailed == "restore board failed"

-----------------------------------------------------------------------------
(* Pure helpers *)

\* format!("{}", n) for n >= 0
RECURSIVE Decimal(_)
Decimal(n) ==
  IF n < 10 THEN <<DigitChar[n + 1]>>
  ELSE Decimal(n \div 10) \o <<DigitChar[(n % 10) + 1]>>

\* str::contains("..")
ContainsDotDot(s) ==
  \E i \in 1..(Len(s) - 1) : s[i] = "." /\ s[i + 1] = "."

ContainsChar(s, c) == \E i \in 1..Len(s) : s[i] = c

AsciiAlphanumeric == Lower \cup Upper \cup DigitSet
is_ascii_alphanumeric(c) == c \in AsciiAlphanumeric

\* A character outside ASCII stands for itself; it takes two bytes in UTF-8.
NonAscii == "U+00E9"

\* str::len: the length in bytes.
len(s) == Len(s) + Cardinality({i \in 1..Len(s) : s[i] = NonAscii})

\* Faulty variant: only the length is checked.
is_valid_board_id_any(board_id) == len(board_id) \in 1..64

\* Faulty variant: one byte too many is let through.
is_valid_board_id_long(board_id) ==
  IF len(board_id) = 0 \/ len(board_id) > 65 THEN FALSE
  ELSE IF ContainsChar(board_id, "/") \/ ContainsChar(board_id, "\\")
          \/ ContainsDotDot(board_id) THEN FALSE
  ELSE \A i \in 1..Len(board_id) :
         is_ascii_alphanumeric(board_id[i]) \/ board_id[i] = "-" \/ board_id[i] = "_"

is_valid_board_id(board_id) ==
  IF len(board_id) = 0 \/ len(board_id) > 64 THEN FALSE
  ELSE IF ContainsChar(board_id, "/") \/ ContainsChar(board_id, "\\")
          \/ ContainsDotDot(board_id) THEN FALSE
  ELSE \A i \in 1..Len(board_id) :
         is_ascii_alphanumeric(board_id[i]) \/ board_id[i] = "-" \/ board_id[i] = "_"

\* str::trim
RECURSIVE TrimStart(_)
TrimStart(s) ==
  IF s # <<>> /\ Head(s) = " " THEN TrimStart(Tail(s)) ELSE s
RECURSIVE TrimEnd(_)
TrimEnd(s) ==
  IF s # <<>> /\ s[Len(s)] = " " THEN TrimEnd(SubSeq(s, 1, Len(s) - 1)) ELSE s
trim(s) == TrimEnd(TrimStart(s))

empty_board(id, name) ==
  [id |-> id, name |-> name, cards |-> <<>>, columns |-> <<>>]

\* serde_json::to_string_pretty(&Board): a JSON object with the four keys.
BoardKeys == {"id", "name", "cards", "columns"}
to_json(board) ==
  [wellformed |-> TRUE, keys |-> BoardKeys, id |-> board.id, name |-> board.name,
   cards |-> board.cards, columns |-> board.columns]

\* serde_json::from_str::<Board>: id, name and cards are required, columns
\* defaults to the empty list; anything else is a parse error (None).
from_json(text) ==
  IF text.wellformed /\ {"id", "name", "cards"} \subseteq text.keys
  THEN Some([id |-> text.id, name |-> text.name, cards |-> text.cards,
             columns |-> IF "columns" \in text.keys THEN text.columns ELSE <<>>])
  ELSE None

Garbage ==
  [wellformed |-> FALSE, keys |-> {}, id |-> <<>>, name |-> <<>>,
   cards |-> <<>>, columns |-> <<>>]

\* A file whose bytes are not valid UTF-8 (an image, say): no text at all.
NotUtf8 == [Garbage EXCEPT !.name = <<"0xFF">>]

-----------------------------------------------------------------------------
(* Filesystem primitives (std::fs), paths relative to the boards root *)

IsPrefix(p, q) == Len(p) <= Len(q) /\ SubSeq(q, 1, Len(p)) = p

Restrict(f, S) == [x \in S |-> f[x]]

exists(f, p) == p = <<>> \/ p \in f.dirs \/ p \in DOMAIN f.files

is_dir(f, p) == p = <<>> \/ p \in f.dirs

create_dir_all(f, p) ==
  [f EXCEPT !.dirs = @ \cup {SubSeq(p, 1, k) : k \in 1..Len(p)}]

remove_dir_all(f, p) ==
  [dirs |-> {d \in f.dirs : ~IsPrefix(p, d)},
   files |-> Restrict(f.files, {g \in DOMAIN f.files : ~IsPrefix(p, g)})]

IsEmptyDir(f, p) ==
  /\ p \in f.dirs
  /\ \A q \in f.dirs \cup DOMAIN f.files : IsPrefix(p, q) => q = p

\* std::fs::rename of a directory fails when the source is missing, when the
\* destination lies inside the source, when the destination's parent is
\* missing, or when the destination exists and is not an empty directory.
rename_fails(f, src, dest) ==
  \/ src \notin f.dirs
  \/ IsPrefix(src, dest)
  \/ ~is_dir(f, SubSeq(dest, 1, Len(dest) - 1))
  \/ (exists(f, dest) /\ ~IsEmptyDir(f, dest))

Reroot(src, dest, q) == dest \o SubSeq(q, Len(src) + 1, Len(q))

\* Faulty variant: the directories move, the files in them are lost.
rename_without_files(f, src, dest) ==
  LET movedD == {d \in f.dirs : IsPrefix(src, d)}
      movedF == {g \in DOMAIN f.files : IsPrefix(src, g)}
  IN [dirs |-> (f.dirs \ movedD) \cup {Reroot(src, dest, d) : d \in movedD},
      files |-> Restrict(f.files, DOMAIN f.files \ movedF)]

rename(f, src, dest) ==
  LET movedD == {d \in f.dirs : IsPrefix(src, d)}
      movedF == {g \in DOMAIN f.files : IsPrefix(src, g)}
      keptF == DOMAIN f.files \ movedF
  IN [dirs |-> (f.dirs \ movedD) \cup {Reroot(src, dest, d) : d \in movedD},
      files |-> [g \in keptF \cup {Reroot(src, dest, h) : h \in movedF} |->
                   IF g \in keptF THEN f.files[g]
                   ELSE f.files[src \o SubSeq(g, Len(dest) + 1, Len(g))]]]

\* The names of the sub-directories of p (read_dir, entries with is_dir()).
read_dir(f, p) ==
  {d[Len(d)] : d \in {e \in f.dirs : Len(e) = Len(p) + 1 /\ IsPrefix(p, e)}}

\* All the orders in which read_dir may yield the names of S.
Orders(S) ==
  {o \in [1..Cardinality(S) -> S] : \A i, j \in 1..Cardinality(S) : o[i] = o[j] => i = j}

-----------------------------------------------------------------------------
(* Board files *)

board_dir(board_id) == <<board_id>>
board_file(dir) == dir \o <<BOARD_JSON>>
board_assets(dir) == dir \o <<ASSETS>>
trash_dir == <<TRASH>>

\* Faulty variant: a write that leaves an existing document in place (the rename
\* onto the old file fails and the failure is dropped).
write_board_keep_old(f, dir, board, now) ==
  IF board_file(dir) \in DOMAIN f.files THEN f
  ELSE [f EXCEPT !.files =
          (board_file(dir) :> [content |-> to_json(board), mtime |-> now]) @@ @]

\* write_board_atomic as one step: the temp file is written, the old document
\* removed and the temp file renamed over it; the document's mtime is now.
write_board_atomic(f, dir, board, now) ==
  [f EXCEPT !.files =
     (board_file(dir) :> [content |-> to_json(board), mtime |-> now]) @@ @]

ensure_board_file(f, board_id, board_name, now) ==
  LET dir == board_dir(board_id)
      f1 == create_dir_all(f, dir)
      f2 == create_dir_all(f1, board_assets(dir))
  IN IF ~exists(f2, board_file(dir))
     THEN write_board_atomic(f2, dir, empty_board(board_id, board_name), now)
     ELSE f2

unwrap_or(opt, default) == IF opt = None THEN default ELSE opt[1]

read_board_name(f, file) ==
  IF file \in DOMAIN f.files
  THEN LET b == from_json(f.files[file].content)
       IN IF b = None THEN None ELSE Some(b[1].name)
  ELSE None

file_modified_millis(f, file) == f.files[file].mtime

-----------------------------------------------------------------------------
(* The index *)

write_index_atomic(boards) ==
  [exists |-> TRUE, wellformed |-> TRUE, boards |-> boards]

\* Position of the first entry with this id, 0 when there is none
\* (index.boards.iter().find(|b| b.id == id)).
Find(boards, id) ==
  IF \E i \in 1..Len(boards) : boards[i].id = id
  THEN CHOOSE i \in 1..Len(boards) :
         boards[i].id = id /\ \A j \in 1..(i - 1) : boards[j].id # id
  ELSE 0

\* The directories under p that a scan takes for boards: a valid id as name
\* and a board.json inside.
Candidates(f, p) ==
  {n \in read_dir(f, p) : is_valid_board_id(n) /\ exists(f, board_file(p \o <<n>>))}

active_meta(f, id) ==
  [id |-> id,
   name |-> unwrap_or(read_board_name(f, board_file(<<id>>)), id),
   updated_at |-> file_modified_millis(f, board_file(<<id>>)),
   deleted_at |-> None]

trash_meta(f, id) ==
  LET deleted_at == file_modified_millis(f, board_file(<<TRASH, id>>))
  IN [id |-> id,
      name |-> unwrap_or(read_board_name(f, board_file(<<TRASH, id>>)), id),
      updated_at |-> deleted_at,
      deleted_at |-> Some(deleted_at)]

\* rebuild_index_from_fs: the active scan in order oa, then the trash scan in
\* order ot (when the trash directory exists); always writes the index.
rebuild_index_from_fs(f, oa, ot) ==
  [boards |-> [i \in 1..Len(oa) |-> active_meta(f, oa[i])]
              \o (IF exists(f, trash_dir)
                  THEN [i \in 1..Len(ot) |-> trash_meta(f, ot[i])]
                  ELSE <<>>),
   wrote |-> TRUE,
   path |-> "rebuild"]

\* One iteration of the active pass of sync_index_with_fs.
sync_active_entry(acc, f, id) ==
  LET m == active_meta(f, id)
      i == Find(acc.boards, id)
  IN IF i # 0
     THEN IF acc.boards[i].name # m.name \/ acc.boards[i].updated_at # m.updated_at
          THEN [boards |-> [acc.boards EXCEPT ![i].name = m.name,
                                              ![i].updated_at = m.updated_at],
                changed |-> TRUE]
          ELSE acc
     ELSE [boards |-> Append(acc.boards, m), changed |-> TRUE]

\* One iteration of the trash pass of sync_index_with_fs.
sync_trash_entry(acc, f, id) ==
  LET m == trash_meta(f, id)
      i == Find(acc.boards, id)
  IN IF i # 0
     THEN IF \/ acc.boards[i].name # m.name
             \/ acc.boards[i].updated_at # m.updated_at
             \/ acc.boards[i].deleted_at # m.deleted_at
          THEN [boards |-> [acc.boards EXCEPT ![i].name = m.name,
                                              ![i].updated_at = m.updated_at,
                                              ![i].deleted_at = m.deleted_at],
                changed |-> TRUE]
          ELSE acc
     ELSE [boards |-> Append(acc.boards, m), changed |-> TRUE]

RECURSIVE sync_active_pass(_, _, _, _)
sync_active_pass(acc, f, order, k) ==
  IF k > Len(order) THEN acc
  ELSE sync_active_pass(sync_active_entry(acc, f, order[k]), f, order, k + 1)

RECURSIVE sync_trash_pass(_, _, _, _)
sync_trash_pass(acc, f, order, k) ==
  IF k > Len(order) THEN acc
  ELSE sync_trash_pass(sync_trash_entry(acc, f, order[k]), f, order, k + 1)

\* Faulty variant: no entry is pruned.
retain_all(boards, seen, seen_trash) == boards

\* index.boards.retain(..): an entry stays when its claimed location was seen.
retain_seen(boards, seen, seen_trash) ==
  LET keep(b) == IF b.deleted_at # None THEN b.id \in seen_trash ELSE b.id \in seen
  IN SelectSeq(boards, keep)

sync_index_with_fs(f, boards, oa, ot) ==
  LET a == sync_active_pass([boards |-> boards, changed |-> FALSE], f, oa, 1)
      t == IF exists(f, trash_dir) THEN sync_trash_pass(a, f, ot, 1) ELSE a
      seen == Candidates(f, <<>>)
      seen_trash == IF exists(f, trash_dir) THEN Candidates(f, trash_dir) ELSE {}
      kept == retain_seen(t.boards, seen, seen_trash)
  IN [boards |-> kept,
      wrote |-> t.changed \/ Len(kept) # Len(t.boards),
      path |-> "sync"]

read_index(f, idx, oa, ot) ==
  IF ~idx.exists THEN rebuild_index_from_fs(f, oa, ot)
  ELSE IF ~idx.wellformed THEN rebuild_index_from_fs(f, oa, ot)
  ELSE IF idx.boards = <<>> THEN rebuild_index_from_fs(f, oa, ot)
  ELSE sync_index_with_fs(f, idx.boards, oa, ot)

\* Every result read_index can have, over the orders the two scans can take.
ReadIndexOutcomes(f, idx) ==
  {read_index(f, idx, oa, ot) :
     oa \in Orders(Candidates(f, <<>>)), ot \in Orders(Candidates(f, trash_dir))}

\* The index file after a read_index with result r.
IndexAfterRead(idx, r) == IF r.wrote THEN write_index_atomic(r.boards) ELSE idx

\* ensure_board_index_contains: the index it writes and returns.
ensure_board_index_contains(boards, board_id, board_name, now) ==
  LET i == Find(boards, board_id)
  IN IF i # 0
     THEN [boards EXCEPT ![i].name = board_name,
                         ![i].updated_at = now,
                         ![i].deleted_at = None]
     ELSE Append(boards, [id |-> board_id, name |-> board_name,
                          updated_at |-> now, deleted_at |-> None])

InIndex(boards, id) == \E i \in 1..Len(boards) : boards[i].id = id

RECURSIVE generate_probe(_, _, _, _)
generate_probe(f, boards, base, i) ==
  LET candidate == base \o <<"-">> \o Decimal(i)
  IN IF ~InIndex(boards, candidate) /\ ~exists(f, <<candidate>>)
     THEN candidate
     ELSE generate_probe(f, boards, base, i + 1)

\* Faulty variant: the collision check is left out.
generate_board_id_unchecked(f, boards, now) == BoardPrefix \o Decimal(now)

generate_board_id(f, boards, now) ==
  LET base == BoardPrefix \o Decimal(now)
  IN IF ~InIndex(boards, base) /\ ~exists(f, <<base>>)
     THEN base
     ELSE generate_probe(f, boards, base, 1)

-----------------------------------------------------------------------------
(* The safety gate: is_safe_url on the host string of a parsed URL *)

LowerChars == <<"a", "b", "c", "d", "e", "f", "g", "h", "i", "j", "k", "l", "m", "n", "o", "p", "q", "r", "s", "t", "u", "v", "w", "x", "y", "z">>
UpperChars == <<"A", "B", "C", "D", "E", "F", "G", "H", "I", "J", "K", "L", "M", "N", "O", "P", "Q", "R", "S", "T", "U", "V", "W", "X", "Y", "Z">>
HexChars == <<"0", "1", "2", "3", "4", "5", "6", "7", "8", "9", "a", "b", "c", "d", "e", "f">>

\* u8::to_ascii_lowercase on one character
to_ascii_lowercase(c) ==
  IF \E i \in 1..26 : UpperChars[i] = c
  THEN LowerChars[CHOOSE i \in 1..26 : UpperChars[i] = c]
  ELSE c

eq_ignore_ascii_case(a, b) ==
  /\ Len(a) = Len(b)
  /\ \A i \in 1..Len(a) : to_ascii_lowercase(a[i]) = to_ascii_lowercase(b[i])

ends_with(s, suffix) ==
  /\ Len(suffix) <= Len(s)
  /\ SubSeq(s, Len(s) - Len(suffix) + 1, Len(s)) = suffix

\* str::split(c): the parts between the separators, empty parts included.
RECURSIVE SplitOn(_, _)
SplitOn(s, c) ==
  IF ~ContainsChar(s, c) THEN <<s>>
  ELSE LET i == CHOOSE k \in 1..Len(s) : s[k] = c /\ \A j \in 1..(k - 1) : s[j] # c
       IN <<SubSeq(s, 1, i - 1)>> \o SplitOn(SubSeq(s, i + 1, Len(s)), c)

DigitValue(c) == (CHOOSE i \in 1..16 : HexChars[i] = to_ascii_lowercase(c)) - 1

RECURSIVE Number(_, _)
Number(part, radix) ==
  IF part = <<>> THEN 0
  ELSE Number(SubSeq(part, 1, Len(part) - 1), radix) * radix + DigitValue(part[Len(part)])

\* One octet of a dotted quad: 1..3 decimal digits, no leading zero, at most 255.
IsOctet(part) ==
  /\ Len(part) \in 1..3
  /\ \A i \in 1..Len(part) : part[i] \in DigitSet
  /\ (Len(part) > 1 => part[1] # "0")
  /\ Number(part, 10) <= 255

\* One group of an IPv6 address: 1..4 hexadecimal digits.
IsGroup(part) ==
  /\ Len(part) \in 1..4
  /\ \A i \in 1..Len(part) : \E k \in 1..16 : HexChars[k] = to_ascii_lowercase(part[i])

Groups(s) == IF s = <<>> THEN <<>> ELSE SplitOn(s, ":")

\* <Ipv4Addr as FromStr>::from_str
parse_ipv4(s) ==
  LET parts == SplitOn(s, ".")
  IN IF Len(parts) = 4 /\ \A i \in 1..4 : IsOctet(parts[i])
     THEN Some([kind |-> "V4", parts |-> [i \in 1..4 |-> Number(parts[i], 10)]])
     ELSE None

\* <Ipv6Addr as FromStr>::from_str, for addresses written without a
\* dotted-quad tail: eight groups, or fewer with one "::" for the zero run.
parse_ipv6(s) ==
  LET gaps == {i \in 1..(Len(s) - 1) : s[i] = ":" /\ s[i + 1] = ":"}
  IN IF gaps = {}
     THEN LET g == Groups(s)
          IN IF Len(g) = 8 /\ \A i \in 1..8 : IsGroup(g[i])
             THEN Some([kind |-> "V6", parts |-> [i \in 1..8 |-> Number(g[i], 16)]])
             ELSE None
     ELSE IF Cardinality(gaps) > 1 THEN None
     ELSE LET i == CHOOSE k \in gaps : TRUE
              head == Groups(SubSeq(s, 1, i - 1))
              tail == Groups(SubSeq(s, i + 2, Len(s)))
              zeros == 8 - Len(head) - Len(tail)
          IN IF /\ zeros >= 1
                /\ \A k \in 1..Len(head) : IsGroup(head[k])
                /\ \A k \in 1..Len(tail) : IsGroup(tail[k])
             THEN Some([kind |-> "V6",
                        parts |-> [k \in 1..Len(head) |-> Number(head[k], 16)]
                                    \o [k \in 1..zeros |-> 0]
                                    \o [k \in 1..Len(tail) |-> Number(tail[k], 16)]])
             ELSE None

\* <IpAddr as FromStr>::from_str
parse_ip(s) == IF parse_ipv4(s) # None THEN parse_ipv4(s) ELSE parse_ipv6(s)

\* Ipv4Addr::is_private, is_loopback, is_link_local, is_unspecified
v4_is_private(o) ==
  \/ o[1] = 10
  \/ (o[1] = 172 /\ o[2] \in 16..31)
  \/ (o[1] = 192 /\ o[2] = 168)
v4_is_loopback(o) == o[1] = 127
v4_is_link_local(o) == o[1] = 169 /\ o[2] = 254
v4_is_unspecified(o) == o = <<0, 0, 0, 0>>

\* Ipv6Addr::is_loopback, is_unicast_link_local (fe80::/10),
\* is_unique_local (fc00::/7), is_unspecified
v6_is_loopback(g) == g = <<0, 0, 0, 0, 0, 0, 0, 1>>
v6_is_unicast_link_local(g) == g[1] \div 64 = 1018
v6_is_unique_local(g) == g[1] \div 512 = 126
v6_is_unspecified(g) == g = <<0, 0, 0, 0, 0, 0, 0, 0>>

\* A parsed URL: its scheme and its host, a domain, an IPv4 address or an
\* IPv6 address, with the text the URL holds for it (an IPv6 address without
\* its brackets).  kind "none": a URL without host.
HostKinds == {"none", "domain", "ipv4", "ipv6"}

\* Url::host_str: the host as the URL serializes it; an IPv6 address stands
\* between "[" and "]".
host_str(url) ==
  IF url.kind = "none" THEN None
  ELSE IF url.kind = "ipv6" THEN Some(<<"[">> \o url.text \o <<"]">>)
  ELSE Some(url.text)

LOCALHOST == <<"l", "o", "c", "a", "l", "h", "o", "s", "t">>
DOT_LOCAL == <<".", "l", "o", "c", "a", "l">>

is_safe_url(url) ==
  IF host_str(url) = None THEN FALSE
  ELSE LET host == host_str(url)[1]
           ip == parse_ip(host)
       IN IF eq_ignore_ascii_case(host, LOCALHOST) \/ ends_with(host, DOT_LOCAL)
          THEN FALSE
          ELSE IF ip # None
          THEN IF ip[1].kind = "V4"
               THEN ~(\/ v4_is_private(ip[1].parts) \/ v4_is_loopback(ip[1].parts)
                      \/ v4_is_link_local(ip[1].parts) \/ v4_is_unspecified(ip[1].parts))
               ELSE ~(\/ v6_is_loopback(ip[1].parts)
                      \/ v6_is_unicast_link_local(ip[1].parts)
                      \/ v6_is_unique_local(ip[1].parts)
                      \/ v6_is_unspecified(ip[1].parts))
          ELSE TRUE

\* The URLs the gate is applied to.
Dotted(a, b, c, d) ==
  Decimal(a) \o <<".">> \o Decimal(b) \o <<".">> \o Decimal(c) \o <<".">> \o Decimal(d)

EXAMPLE_COM == <<"e", "x", "a", "m", "p", "l", "e", ".", "c", "o", "m">>
PRINTER_LOCAL == <<"p", "r", "i", "n", "t", "e", "r", ".", "l", "o", "c", "a", "l">>
LOCALE_ORG == <<"l", "o", "c", "a", "l", "e", ".", "o", "r", "g">>

DomainHosts == {LOCALHOST, EXAMPLE_COM, PRINTER_LOCAL, LOCALE_ORG}

Ipv4Hosts ==
  {Dotted(a, b, 0, d) : a \in {0, 8, 10, 127, 169, 172, 192},
                        b \in {0, 15, 16, 31, 32, 168, 254},
                        d \in {0, 1, 5}}

Ipv6Hosts ==
  {<<":", ":", "1">>,
   <<":", ":">>,
   <<"f", "e", "8", "0", ":", ":", "1">>,
   <<"f", "c", "0", "0", ":", ":", "1">>,
   <<"f", "d", "1", "2", ":", "3", "4", "5", "6", ":", ":", "1">>,
   <<"2", "0", "0", "1", ":", "d", "b", "8", ":", ":", "1">>,
   <<"2", "6", "0", "6", ":", "4", "7", "0", "0", ":", "0", ":", "0", ":", "0", ":", "0", ":", "0", ":", "1", "1", "1", "1">>}

Url(scheme, kind, text) == [scheme |-> scheme, kind |-> kind, text |-> text]

Urls ==
  {Url(sc, "domain", h) : sc \in {"http", "https"}, h \in DomainHosts}
    \cup {Url("http", "ipv4", h) : h \in Ipv4Hosts}
    \cup {Url("http", "ipv6", h) : h \in Ipv6Hosts}
    \cup {Url("file", "none", <<>>)}

-----------------------------------------------------------------------------
(* Inputs of the commands *)

UserId == <<"x">>        \* a valid id that no create_board returns
BadId == <<".", ".">>    \* an id the validator rejects
OtherId == <<"y">>       \* the id of a document saved under another id
ExtraIds == {UserId, BadId}

CreateNames == {<<"T">>, <<" ">>}
CdrNames == {<<" ", "T">>}
SaveNames == {<<"N">>}
CardLists == {<<>>, <<"c">>}

IndexIds(boards) == {boards[i].id : i \in 1..Len(boards)}

\* The ids that exist somewhere: in the index file, or as a directory under
\* the root (the trash directory aside) or under the trash directory.
PresentIds ==
  IndexIds(indexFile.boards)
    \cup (read_dir(fs, <<>>) \ {TRASH}) \cup read_dir(fs, trash_dir)

CmdIds == PresentIds \cup ExtraIds

\* A command that may create the directory of a new id is offered while fewer
\* than MaxBoards ids exist.
Room(id) == id \in PresentIds \/ Cardinality(PresentIds) < MaxBoards

NoRead == [boards |-> <<>>, wrote |-> FALSE, path |-> "none"]

\* What a command leaves in ret; r is the result of its read_index, or NoRead.
\* follows is Some(b) when the command directly before it was a successful
\* save_board of the same id with document b (kept by load_board only).
Returned(cmd, id, arg, err, val, r) ==
  [cmd |-> cmd, id |-> id, arg |-> arg, err |-> err, val |-> val,
   index |-> r.boards, wrote |-> r.wrote, path |-> r.path, follows |-> None]

JustSaved(board_id) ==
  IF ret.cmd = "save_board" /\ ret.err = NoErr /\ ret.id = board_id
  THEN Some(ret.arg) ELSE None

\* A command that fails before it touches anything.
Rejected(cmd, id, arg, err) ==
  /\ ret' = Returned(cmd, id, arg, err, <<>>, NoRead)
  /\ UNCHANGED <<fs, indexFile>>

index_name(boards, board_id) ==
  LET i == Find(boards, board_id)
  IN IF i # 0 THEN boards[i].name ELSE Untitled

Reverse(s) == [i \in 1..Len(s) |-> s[Len(s) + 1 - i]]

\* Vec::sort_by_key(|b| b.deleted_at.unwrap_or(0)): a stable ascending sort.
sort_key(b) == unwrap_or(b.deleted_at, 0)
RECURSIVE sort_by_key(_)
sort_by_key(s) ==
  IF s = <<>> THEN <<>>
  ELSE LET done == sort_by_key(SubSeq(s, 1, Len(s) - 1))
           b == s[Len(s)]
           k == Cardinality({i \in 1..Len(done) : sort_key(done[i]) <= sort_key(b)})
       IN SubSeq(done, 1, k) \o <<b>> \o SubSeq(done, k + 1, Len(done))

is_active(b) == b.deleted_at = None
is_deleted(b) == b.deleted_at # None

-----------------------------------------------------------------------------
(* The application start and the commands *)

\* run(): setup calls ensure_board_index, which rebuilds the index.
setup ==
  /\ \E oa \in Orders(Candidates(fs, <<>>)), ot \in Orders(Candidates(fs, trash_dir)) :
       LET r == rebuild_index_from_fs(fs, oa, ot)
       IN /\ indexFile' = write_index_atomic(r.boards)
          /\ ret' = Returned("setup", <<>>, <<>>, NoErr, <<>>, r)
  /\ UNCHANGED <<fs, clock>>

list_boards ==
  /\ \E r \in ReadIndexOutcomes(fs, indexFile) :
       /\ indexFile' = IndexAfterRead(indexFile, r)
       /\ ret' = Returned("list_boards", <<>>, <<>>, NoErr,
                          SelectSeq(r.boards, is_active), r)
  /\ UNCHANGED <<fs, clock>>

list_trashed_boards ==
  /\ \E r \in ReadIndexOutcomes(fs, indexFile) :
       /\ indexFile' = IndexAfterRead(indexFile, r)
       /\ ret' = Returned("list_trashed_boards", <<>>, <<>>, NoErr,
                          Reverse(sort_by_key(SelectSeq(r.boards, is_deleted))), r)
  /\ UNCHANGED <<fs, clock>>

empty_trash ==
  /\ \E r \in ReadIndexOutcomes(fs, indexFile) :
       /\ indexFile' = write_index_atomic(SelectSeq(r.boards, is_active))
       /\ ret' = Returned("empty_trash", <<>>, <<>>, NoErr, <<>>, r)
  /\ fs' = IF exists(fs, trash_dir) THEN remove_dir_all(fs, trash_dir) ELSE fs
  /\ UNCHANGED clock

create_board(name) ==
  /\ \E r \in ReadIndexOutcomes(fs, indexFile) :
       LET board_id == generate_board_id(fs, r.boards, clock)
           safe_name == IF trim(name) = <<>> THEN Untitled ELSE trim(name)
           meta == [id |-> board_id, name |-> safe_name,
                    updated_at |-> clock, deleted_at |-> None]
       IN /\ fs' = ensure_board_file(fs, board_id, safe_name, clock)
          /\ indexFile' = write_index_atomic(Append(r.boards, meta))
          /\ ret' = Returned("create_board", board_id, name, NoErr, meta, r)
  /\ UNCHANGED clock

\* The index delete_board writes: the first entry with the id is marked.
mark_deleted(boards, i, now) == [boards EXCEPT ![i].deleted_at = Some(now)]

delete_board(board_id) ==
  /\ IF ~is_valid_board_id(board_id)
     THEN Rejected("delete_board", board_id, <<>>, InvalidIdentifier)
     ELSE \E r \in ReadIndexOutcomes(fs, indexFile) :
       LET i == Find(r.boards, board_id)
           dir == board_dir(board_id)
           dest == trash_dir \o <<board_id>>
           f1 == create_dir_all(fs, trash_dir)
           f2 == IF exists(f1, dest) THEN remove_dir_all(f1, dest) ELSE f1
       IN IF i = 0
          THEN /\ indexFile' = IndexAfterRead(indexFile, r)
               /\ fs' = fs
               /\ ret' = Returned("delete_board", board_id, <<>>, NotFound, <<>>, r)
          ELSE /\ indexFile' = write_index_atomic(mark_deleted(r.boards, i, clock))
               /\ IF ~exists(fs, dir)
                  THEN /\ fs' = fs
                       /\ ret' = Returned("delete_board", board_id, <<>>, NoErr, <<>>, r)
                  ELSE IF rename_fails(f2, dir, dest)
                  THEN /\ fs' = f2
                       /\ ret' = Returned("delete_board", board_id, <<>>, MoveFailed, <<>>, r)
                  ELSE /\ fs' = rename(f2, dir, dest)
                       /\ ret' = Returned("delete_board", board_id, <<>>, NoErr, <<>>, r)
  /\ UNCHANGED clock

\* Faulty variant: the check for an existing <root>/<id> is left out.
restore_check_no_dest(f, board_id) ==
  IF ~is_valid_board_id(board_id) THEN InvalidIdentifier
  ELSE IF ~exists(f, trash_dir \o <<board_id>>) THEN NotFoundInTrash
  ELSE NoErr

\* The checks restore_board makes before it moves anything.
restore_check(f, board_id) ==
  IF ~is_valid_board_id(board_id) THEN InvalidIdentifier
  ELSE IF ~exists(f, trash_dir \o <<board_id>>) THEN NotFoundInTrash
  ELSE IF exists(f, <<board_id>>) THEN AlreadyExists
  ELSE NoErr

restore_board(board_id) ==
  /\ LET src == trash_dir \o <<board_id>>
         dest == <<board_id>>
         err == restore_check(fs, board_id)
     IN IF err # NoErr
        THEN Rejected("restore_board", board_id, <<>>, err)
        ELSE IF rename_fails(fs, src, dest)
        THEN Rejected("restore_board", board_id, <<>>, RestoreFailed)
        ELSE LET f1 == rename(fs, src, dest)
                 name == unwrap_or(read_board_name(f1, board_file(dest)), board_id)
             IN /\ fs' = f1
                /\ \E r \in ReadIndexOutcomes(f1, indexFile) :
                     /\ indexFile' = write_index_atomic(
                          ensure_board_index_contains(r.boards, board_id, name, clock))
                     /\ ret' = Returned("restore_board", board_id, <<>>, NoErr, <<>>, r)
  /\ UNCHANGED clock

get_assets_dir(board_id) ==
  /\ IF ~is_valid_board_id(board_id)
     THEN Rejected("get_assets_dir", board_id, <<>>, InvalidIdentifier)
     ELSE \E r \in ReadIndexOutcomes(fs, indexFile) :
       LET name == index_name(r.boards, board_id)
       IN /\ fs' = ensure_board_file(fs, board_id, name, clock)
          /\ indexFile' = write_index_atomic(
               ensure_board_index_contains(r.boards, board_id, name, clock))
          /\ ret' = Returned("get_assets_dir", board_id, <<>>, NoErr,
                             board_assets(board_dir(board_id)), r)
  /\ UNCHANGED clock

ReadFailed == "read failed"

\* std::fs::read_to_string: the text of the file, None (an error) when the
\* bytes are not valid UTF-8.
fs_read_to_string(f, file) ==
  IF f.files[file].content = NotUtf8 THEN None ELSE Some(f.files[file].content)

\* board.id = board_id.clone() of load_board
load_fix_id(board, board_id) == [board EXCEPT !.id = board_id]

load_board(board_id) ==
  /\ IF ~is_valid_board_id(board_id)
     THEN Rejected("load_board", board_id, <<>>, InvalidIdentifier)
     ELSE \E r \in ReadIndexOutcomes(fs, indexFile) :
       LET name == index_name(r.boards, board_id)
           dir == board_dir(board_id)
           f1 == ensure_board_file(fs, board_id, name, clock)
           text == fs_read_to_string(f1, board_file(dir))
           parsed == from_json(text[1])
           board == IF parsed = None THEN empty_board(board_id, name)
                    ELSE load_fix_id(parsed[1], board_id)
       IN /\ indexFile' = IndexAfterRead(indexFile, r)
          /\ IF text = None
             THEN /\ fs' = f1
                  /\ ret' = Returned("load_board", board_id, <<>>, ReadFailed, <<>>, r)
             ELSE /\ fs' = IF parsed = None \/ parsed[1].id # board_id
                           THEN write_board_atomic(f1, dir, board, clock)
                           ELSE f1
                  /\ ret' = [Returned("load_board", board_id, <<>>, NoErr, board, r)
                               EXCEPT !.follows = JustSaved(board_id)]
  /\ UNCHANGED clock

\* Faulty variant: the deleted check is left out.
save_check_none(boards, board_id) == NoErr

\* The checks save_board makes on the index read_index returned.
save_check(boards, board_id) ==
  LET i == Find(boards, board_id)
  IN IF i # 0 /\ boards[i].deleted_at # None THEN AlreadyDeleted ELSE NoErr

save_board(board_id, board) ==
  /\ IF ~is_valid_board_id(board_id)
     THEN Rejected("save_board", board_id, board, InvalidIdentifier)
     ELSE IF board.id # board_id
     THEN Rejected("save_board", board_id, board, IdMismatch)
     ELSE \E r \in ReadIndexOutcomes(fs, indexFile) :
       LET dir == board_dir(board_id)
           f1 == ensure_board_file(fs, board_id, board.name, clock)
       IN IF save_check(r.boards, board_id) # NoErr
          THEN /\ indexFile' = IndexAfterRead(indexFile, r)
               /\ fs' = fs
               /\ ret' = Returned("save_board", board_id, board,
                                  save_check(r.boards, board_id), <<>>, r)
          ELSE /\ fs' = write_board_atomic(f1, dir, board, clock)
               /\ indexFile' = write_index_atomic(
                    ensure_board_index_contains(r.boards, board_id, board.name, clock))
               /\ ret' = Returned("save_board", board_id, board, NoErr, <<>>, r)
  /\ UNCHANGED clock

-----------------------------------------------------------------------------
(* Chat, image and link commands *)

CHAT_JSON == <<"c", "h", "a", "t", ".", "j", "s", "o", "n">>
DOT_TMP == <<".", "t", "m", "p">>
LINK_PREFIX == <<"l", "i", "n", "k", "-">>

ParseChatFailed == "parse chat failed"
DecodeFailed == "base64 decode failed"
RenameImageFailed == "rename image failed"
InvalidUrl == "invalid url"
UnsupportedScheme == "unsupported url scheme"
BlockedHost == "blocked url host"
FetchFailed == "fetch failed"

\* ChatStore { version: 1, messages: vec![], .. }: what load_chat returns
\* when the board has no chat.json.
EmptyChat == [version |-> 1, messages |-> <<>>]

\* The first steps load_chat, save_chat, save_image and save_asset_bytes
\* share: the name from the index read_index returned, then ensure_board_file.
ensure_named(f, r, board_id, now) ==
  ensure_board_file(f, board_id, index_name(r.boards, board_id), now)

load_chat(board_id) ==
  /\ IF ~is_valid_board_id(board_id)
     THEN Rejected("load_chat", board_id, <<>>, InvalidIdentifier)
     ELSE \E r \in ReadIndexOutcomes(fs, indexFile) :
       LET f1 == ensure_named(fs, r, board_id, clock)
           chat_path == board_dir(board_id) \o <<CHAT_JSON>>
       IN /\ indexFile' = IndexAfterRead(indexFile, r)
          /\ fs' = f1
          /\ ret' = IF ~exists(f1, chat_path)
                    THEN Returned("load_chat", board_id, <<>>, NoErr, EmptyChat, r)
                    ELSE IF ~f1.files[chat_path].content.wellformed
                    THEN Returned("load_chat", board_id, <<>>, ParseChatFailed, <<>>, r)
                    ELSE Returned("load_chat", board_id, <<>>, NoErr,
                                  f1.files[chat_path].content.chat, r)
  /\ UNCHANGED clock

save_chat(board_id, chat) ==
  /\ IF ~is_valid_board_id(board_id)
     THEN Rejected("save_chat", board_id, chat, InvalidIdentifier)
     ELSE \E r \in ReadIndexOutcomes(fs, indexFile) :
       LET f1 == ensure_named(fs, r, board_id, clock)
           chat_path == board_dir(board_id) \o <<CHAT_JSON>>
           text == [wellformed |-> TRUE, chat |-> chat]
       IN /\ indexFile' = IndexAfterRead(indexFile, r)
          /\ fs' = [f1 EXCEPT !.files = (chat_path :> [content |-> text, mtime |-> clock]) @@ @]
          /\ ret' = Returned("save_chat", board_id, chat, NoErr, <<>>, r)
  /\ UNCHANGED clock

\* str::replace(from, to) for a one-character pattern
RECURSIVE ReplaceChar(_, _, _)
ReplaceChar(s, from, to) ==
  IF s = <<>> THEN <<>>
  ELSE <<IF Head(s) = from THEN to ELSE Head(s)>> \o ReplaceChar(Tail(s), from, to)

\* str::replace("..", "_"): matches are taken left to right and do not overlap.
RECURSIVE ReplaceDotDot(_)
ReplaceDotDot(s) ==
  IF Len(s) < 2 THEN s
  ELSE IF s[1] = "." /\ s[2] = "." THEN <<"_">> \o ReplaceDotDot(SubSeq(s, 3, Len(s)))
  ELSE <<Head(s)>> \o ReplaceDotDot(Tail(s))

sanitize(filename) ==
  ReplaceDotDot(ReplaceChar(ReplaceChar(filename, "\\", "_"), "/", "_"))

\* The write of an asset file: temp file, removal of the old file, rename.
\* An empty name makes the target the assets directory itself: the removal
\* fails unnoticed and the rename fails, leaving the temp file.
write_asset(f, dir, safe_name, bytes, now) ==
  LET out == IF safe_name = <<>> THEN board_assets(dir)
             ELSE board_assets(dir) \o <<safe_name>>
      tmp == board_assets(dir) \o <<safe_name \o DOT_TMP>>
      entry == [content |-> bytes, mtime |-> now]
  IN IF is_dir(f, out)
     THEN [fs |-> [f EXCEPT !.files = (tmp :> entry) @@ @], err |-> RenameImageFailed]
     ELSE [fs |-> [f EXCEPT !.files = (out :> entry) @@ @], err |-> NoErr]

\* bytes_base64 is [ok, bytes]: whether it decodes, and to what.
save_image(board_id, filename, bytes_base64) ==
  /\ IF ~is_valid_board_id(board_id)
     THEN Rejected("save_image", board_id, filename, InvalidIdentifier)
     ELSE \E r \in ReadIndexOutcomes(fs, indexFile) :
       LET f1 == ensure_named(fs, r, board_id, clock)
           safe_name == sanitize(filename)
           w == write_asset(f1, board_dir(board_id), safe_name, bytes_base64.bytes, clock)
       IN /\ indexFile' = IndexAfterRead(indexFile, r)
          /\ IF ~bytes_base64.ok
             THEN /\ fs' = f1
                  /\ ret' = Returned("save_image", board_id, filename, DecodeFailed, <<>>, r)
             ELSE /\ fs' = w.fs
                  /\ ret' = Returned("save_image", board_id, filename, w.err,
                                     IF w.err = NoErr THEN <<ASSETS, safe_name>> ELSE <<>>, r)
  /\ UNCHANGED clock

\* ext_from_content_type; a content type is [type, subtype].
ext_from_content_type(content_type) ==
  IF content_type.type # "image" THEN None
  ELSE IF content_type.subtype \in {"jpeg", "jpg"} THEN Some(<<".", "j", "p", "g">>)
  ELSE IF content_type.subtype = "png" THEN Some(<<".", "p", "n", "g">>)
  ELSE IF content_type.subtype = "webp" THEN Some(<<".", "w", "e", "b", "p">>)
  ELSE IF content_type.subtype = "gif" THEN Some(<<".", "g", "i", "f">>)
  ELSE None

\* save_asset_bytes: [fs, indexFile, r, err, val]
save_asset_bytes(f, idx, board_id, bytes, ext, now, r) ==
  LET f1 == ensure_named(f, r, board_id, now)
      safe_ext == IF ext # <<>> /\ Head(ext) = "." THEN ext ELSE <<".">> \o ext
      safe_name == sanitize(LINK_PREFIX \o Decimal(now) \o safe_ext)
      w == write_asset(f1, board_dir(board_id), safe_name, bytes, now)
  IN [fs |-> w.fs, indexFile |-> IndexAfterRead(idx, r), r |-> r, err |-> w.err,
      val |-> <<ASSETS, safe_name>>]

\* Url::parse: the url argument is a URL already taken apart, or text that
\* does not parse (kind "unparsable").
Url_parse(url) == IF url.kind = "unparsable" THEN None ELSE Some(url)

\* Url::join: an absolute reference stands for itself, a relative one keeps
\* the scheme and host of the base.
join(base, raw) == IF raw.kind = "relative" THEN base ELSE raw

Request(kind, url) == [kind |-> kind, url |-> url]

\* The answers the network may give to the page request for url: none, or a
\* page reached directly or after a redirect, with or without title and
\* image reference.
InternalUrl == Url("http", "ipv4", Dotted(10, 0, 0, 5))
ImageUrl == Url("https", "domain", EXAMPLE_COM)
RelativeRef == Url("", "relative", <<>>)

PageAnswers(url) ==
  {None} \cup
  {Some([final_url |-> f, title |-> t, image |-> i]) :
     f \in {url, InternalUrl},
     t \in {None, Some(<<"t">>)},
     i \in {None, Some(RelativeRef), Some(ImageUrl), Some(InternalUrl)}}

\* The answers to the image request: none, or a status, content type and body.
ImageAnswers ==
  {None} \cup
  {Some([success |-> ok, content_type |-> [type |-> ty, subtype |-> st], small |-> sm]) :
     ok \in BOOLEAN, ty \in {"image", "text"}, st \in {"png", "bmp"}, sm \in BOOLEAN}

\* A page with a title and an image on another host, and the image itself.
PlainPage(url) == Some([final_url |-> url, title |-> Some(<<"t">>), image |-> Some(ImageUrl)])
PlainImage ==
  Some([success |-> TRUE, content_type |-> [type |-> "image", subtype |-> "png"],
        small |-> TRUE])

\* The part of fetch_link_metadata after the page request: the page is
\* parsed, the image is requested when its resolved URL passes the gate, and saved when the answer
\* is a successful image of at most 5 MiB.  ia is None when the request
\* fails.
fetch_page(board_id, url, page, ia) ==
  \E r \in ReadIndexOutcomes(fs, indexFile) :
    LET final_url == page.final_url
        hops == IF final_url = url THEN <<>> ELSE <<Request("redirect", final_url)>>
        title == IF page.title # None THEN page.title[1]
                 ELSE unwrap_or(host_str(final_url), <<"L", "i", "n", "k">>)
        resolved == IF page.image = None THEN None
                    ELSE Some(join(final_url, page.image[1]))
        asked == resolved # None /\ is_safe_url(resolved[1])
        usable == /\ asked /\ ia # None
                  /\ ia[1].success /\ ia[1].content_type.type = "image" /\ ia[1].small
        ext == unwrap_or(ext_from_content_type(ia[1].content_type), <<".", "i", "m", "g">>)
        saved == save_asset_bytes(fs, indexFile, board_id, "bytes", ext, clock, r)
        image == IF usable /\ saved.err = NoErr THEN Some(saved.val) ELSE None
    IN /\ net' = net \o <<Request("page", url)>> \o hops
                    \o (IF asked THEN <<Request("image", resolved[1])>> ELSE <<>>)
       /\ fs' = IF usable THEN saved.fs ELSE fs
       /\ indexFile' = IF usable THEN saved.indexFile ELSE indexFile
       /\ ret' = Returned("fetch_link_metadata", board_id, url, NoErr,
                          [url |-> final_url, title |-> title, image |-> image,
                           site_name |-> host_str(final_url)],
                          IF usable THEN r ELSE NoRead)

\* page is the network's answer to the page request (None: the request
\* fails), ia its answer to the image request.
fetch_link_metadata(board_id, url, page, ia) ==
  /\ IF ~is_valid_board_id(board_id)
     THEN Rejected("fetch_link_metadata", board_id, url, InvalidIdentifier) /\ net' = net
     ELSE IF Url_parse(url) = None
     THEN Rejected("fetch_link_metadata", board_id, url, InvalidUrl) /\ net' = net
     ELSE IF url.scheme \notin {"http", "https"}
     THEN Rejected("fetch_link_metadata", board_id, url, UnsupportedScheme) /\ net' = net
     ELSE IF ~is_safe_url(url)
     THEN Rejected("fetch_link_metadata", board_id, url, BlockedHost) /\ net' = net
     ELSE IF page = None
     THEN /\ Rejected("fetch_link_metadata", board_id, url, FetchFailed)
          /\ net' = net \o <<Request("page", url)>>
     ELSE fetch_page(board_id, url, page[1], ia)
  /\ UNCHANGED clock

\* Time passes between two commands.
Tick ==
  /\ clock < MaxClock
  /\ clock' = clock + 1
  /\ UNCHANGED <<fs, indexFile, ret>>

-----------------------------------------------------------------------------
(* Specifications *)

EmptyFs == [dirs |-> {}, files |-> <<>>]

\* No call is in progress step by step, nothing has been requested.
NoProcs == <<>>
Quiet == UNCHANGED <<procs, net>>

\* The first start on an empty boards root: setup has written an empty index.
Init ==
  /\ fs = EmptyFs
  /\ indexFile = write_index_atomic(<<>>)
  /\ clock = 1
  /\ ret = Returned("setup", <<>>, <<>>, NoErr, <<>>,
                    [boards |-> <<>>, wrote |-> TRUE, path |-> "rebuild"])
  /\ procs = NoProcs
  /\ net = <<>>

SaveBoards(board_id) ==
  [id : {board_id, OtherId}, name : SaveNames, cards : CardLists, columns : {<<>>}]

Next ==
  \/ (setup /\ Quiet)
  \/ (list_boards /\ Quiet)
  \/ (list_trashed_boards /\ Quiet)
  \/ (empty_trash /\ Quiet)
  \/ (Cardinality(PresentIds) < MaxBoards /\ Quiet
        /\ \E name \in CreateNames : create_board(name))
  \/ \E id \in CmdIds : (delete_board(id) /\ Quiet)
  \/ \E id \in CmdIds : (restore_board(id) /\ Quiet)
  \/ \E id \in CmdIds : (Room(id) /\ get_assets_dir(id) /\ Quiet)
  \/ \E id \in CmdIds : (Room(id) /\ load_board(id) /\ Quiet)
  \/ \E id \in CmdIds : \E board \in SaveBoards(id) :
       (Room(id) /\ save_board(id, board) /\ Quiet)
  \/ (Tick /\ Quiet)

Spec == Init /\ [][Next]_vars

\* Only createBoard / deleteBoard / restoreBoard calls, from an empty root.
NextCDR ==
  \/ (Cardinality(PresentIds) < MaxCdrBoards /\ Quiet
        /\ \E name \in CdrNames : create_board(name))
  \/ \E id \in CmdIds : (delete_board(id) /\ Quiet)
  \/ \E id \in CmdIds : (restore_board(id) /\ Quiet)
  \/ (Tick /\ Quiet)

SpecCDR == Init /\ [][NextCDR]_vars

-----------------------------------------------------------------------------
(* Arbitrary filesystem states and stored indexes: the directories of one   *)
(* id under the root and under the trash directory, with or without a       *)
(* document (well-formed or not), and any stored index over that id.        *)

ArbId == BoardPrefix \o Decimal(1)

ArbDocument == to_json([id |-> ArbId, name |-> <<"N">>, cards |-> <<>>, columns |-> <<>>])

ArbSlots ==
  {[kind |-> k, content |-> Garbage, mtime |-> 0] : k \in {"absent", "dir"}}
    \cup {[kind |-> "doc", content |-> c, mtime |-> t] :
            c \in {ArbDocument, Garbage}, t \in 1..MaxClock}

\* The filesystem with slot a under the root and slot t under the trash
\* directory; td: the trash directory exists even when t is absent.
ArbFs(a, t, td) ==
  LET fa == board_file(<<ArbId>>)
      ft == board_file(<<TRASH, ArbId>>)
  IN [dirs |-> (IF a.kind # "absent" THEN {<<ArbId>>} ELSE {})
                 \cup (IF t.kind # "absent" THEN {trash_dir, <<TRASH, ArbId>>}
                       ELSE IF td THEN {trash_dir} ELSE {}),
      files |-> [p \in (IF a.kind = "doc" THEN {fa} ELSE {})
                         \cup (IF t.kind = "doc" THEN {ft} ELSE {}) |->
                   IF p = fa THEN [content |-> a.content, mtime |-> a.mtime]
                   ELSE [content |-> t.content, mtime |-> t.mtime]]]

ArbMetas ==
  [id : {ArbId}, name : {<<"N">>}, updated_at : 1..MaxClock,
   deleted_at : {None} \cup {Some(t) : t \in 1..MaxClock}]

ArbIndexFiles ==
  {[exists |-> e, wellformed |-> FALSE, boards |-> <<>>] : e \in BOOLEAN}
    \cup {write_index_atomic(b) :
            b \in UNION {[1..n -> ArbMetas] : n \in 0..MaxStoredLen}}

InitArb ==
  /\ fs \in {ArbFs(a, t, td) : a \in ArbSlots, t \in ArbSlots, td \in BOOLEAN}
  /\ indexFile \in ArbIndexFiles
  /\ clock = 1
  /\ ret = Returned("none", <<>>, <<>>, NoErr, <<>>, NoRead)
  /\ procs = NoProcs
  /\ net = <<>>

\* generate_board_id applied to the stored index as it is (not reconciled).
generate_id ==
  /\ ret' = Returned("generate_board_id", <<>>, <<>>, NoErr,
                     generate_board_id(fs, indexFile.boards, clock),
                     [boards |-> indexFile.boards, wrote |-> FALSE, path |-> "none"])
  /\ UNCHANGED <<fs, indexFile, clock>>

NextArb ==
  \/ (list_boards /\ Quiet)
  \/ (list_trashed_boards /\ Quiet)
  \/ (generate_id /\ Quiet)

SpecArb == InitArb /\ [][NextArb]_vars

-----------------------------------------------------------------------------
(* The life of one board: a client creates it, saves a document, deletes    *)
(* it, restores it and loads it, and may delete it again; it lists the      *)
(* boards and the trash at any point, and time may pass between two calls.  *)

Client(pc, id, board) == [client |-> [pc |-> pc, id |-> id, board |-> board]]

InitLife ==
  /\ fs = EmptyFs
  /\ indexFile = write_index_atomic(<<>>)
  /\ clock = 1
  /\ ret = Returned("setup", <<>>, <<>>, NoErr, <<>>,
                    [boards |-> <<>>, wrote |-> TRUE, path |-> "rebuild"])
  /\ procs = Client("start", <<>>, <<>>)
  /\ net = <<>>

LifeBoards(board_id) ==
  [id : {board_id}, name : SaveNames, cards : CardLists, columns : {<<>>}]

NextLife ==
  \/ /\ procs.client.pc = "start"
     /\ \E name \in CreateNames : create_board(name)
     /\ procs' = Client("created", ret'.id, <<>>)
     /\ UNCHANGED net
  \/ /\ procs.client.pc = "created"
     /\ \E board \in LifeBoards(procs.client.id) :
          /\ save_board(procs.client.id, board)
          /\ procs' = Client("saved", procs.client.id, board)
     /\ UNCHANGED net
  \/ /\ procs.client.pc \in {"saved", "loaded"}
     /\ delete_board(procs.client.id)
     /\ procs' = Client("deleted", procs.client.id, procs.client.board)
     /\ UNCHANGED net
  \/ /\ procs.client.pc = "deleted"
     /\ restore_board(procs.client.id)
     /\ procs' = Client("restored", procs.client.id, procs.client.board)
     /\ UNCHANGED net
  \/ /\ procs.client.pc = "restored"
     /\ load_board(procs.client.id)
     /\ procs' = Client("loaded", procs.client.id, procs.client.board)
     /\ UNCHANGED net
  \/ (list_boards /\ Quiet)
  \/ (list_trashed_boards /\ Quiet)
  \/ (Tick /\ Quiet)

SpecLife == InitLife /\ [][NextLife]_vars

-----------------------------------------------------------------------------
(* The trash: a caller creates and deletes boards, empties the trash,       *)
(* restores, lists the trash, and saves images; the board id `trash` and    *)
(* the file name `board.json` are among its inputs. The caller remembers    *)
(* whether it has emptied the trash and deleted nothing since, and which    *)
(* boards were in the trash when it emptied it.                             *)

Caller(emptied, trashed) == [caller |-> [emptied |-> emptied, trashed |-> trashed]]

InitTrash ==
  /\ fs = EmptyFs
  /\ indexFile = write_index_atomic(<<>>)
  /\ clock = 1
  /\ ret = Returned("setup", <<>>, <<>>, NoErr, <<>>,
                    [boards |-> <<>>, wrote |-> TRUE, path |-> "rebuild"])
  /\ procs = Caller(FALSE, {})
  /\ net = <<>>

\* The ids of the entries of an index that are marked deleted.
DeletedIds(boards) == {boards[i].id : i \in {j \in 1..Len(boards) : is_deleted(boards[j])}}

TrashImages == {[ok |-> TRUE, bytes |-> Garbage]}

NextTrash ==
  \/ (Cardinality(PresentIds) < MaxBoards /\ Quiet
        /\ \E name \in CdrNames : create_board(name))
  \/ \E id \in PresentIds :
       /\ delete_board(id)
       /\ procs' = Caller(FALSE, {})
       /\ UNCHANGED net
  \/ /\ empty_trash
     /\ procs' = Caller(TRUE, DeletedIds(ret'.index))
     /\ UNCHANGED net
  \/ \E id \in PresentIds \cup procs.caller.trashed : (restore_board(id) /\ Quiet)
  \/ (list_trashed_boards /\ Quiet)
  \/ \E b64 \in TrashImages : (save_image(TRASH, BOARD_JSON, b64) /\ Quiet)
  \/ (Tick /\ Quiet)

SpecTrash == InitTrash /\ [][NextTrash]_vars

-----------------------------------------------------------------------------
(* The order of the trash: boards are created, saved and deleted at         *)
(* different times, and the lists are read in between. The caller keeps     *)
(* the time of each delete_board call that returned Ok.                     *)

DeleteCalls(calls) == [calls |-> calls]

InitOrder ==
  /\ fs = EmptyFs
  /\ indexFile = write_index_atomic(<<>>)
  /\ clock = 1
  /\ ret = Returned("setup", <<>>, <<>>, NoErr, <<>>,
                    [boards |-> <<>>, wrote |-> TRUE, path |-> "rebuild"])
  /\ procs = DeleteCalls({})
  /\ net = <<>>

CalledIds == {c.id : c \in procs.calls}

OrderBoards(board_id) ==
  [id : {board_id}, name : SaveNames, cards : {<<"c">>}, columns : {<<>>}]

TickOrder ==
  /\ clock < MaxOrderClock
  /\ clock' = clock + 1
  /\ UNCHANGED <<fs, indexFile, ret>>

NextOrder ==
  \/ (Cardinality(PresentIds) < MaxOrderBoards /\ Quiet
        /\ \E name \in CdrNames : create_board(name))
  \/ \E id \in PresentIds \ CalledIds : \E board \in OrderBoards(id) :
       (save_board(id, board) /\ Quiet)
  \/ \E id \in PresentIds \ CalledIds :
       /\ delete_board(id)
       /\ procs' = IF ret'.err = NoErr
                   THEN DeleteCalls(procs.calls \cup {[id |-> id, at |-> clock]})
                   ELSE procs
       /\ UNCHANGED net
  \/ (list_boards /\ Quiet)
  \/ (list_trashed_boards /\ Quiet)
  \/ (TickOrder /\ Quiet)

SpecOrder == InitOrder /\ [][NextOrder]_vars

-----------------------------------------------------------------------------
(* The atomic writes step by step. A writer is a call of                    *)
(* write_board_atomic or write_index_atomic in progress: it creates (or    *)
(* truncates) the temp file, writes the text through the handle it holds,  *)
(* removes the old destination and renames the temp file. procs holds the  *)
(* position of every writer and the writer whose rename succeeded last.    *)

BOARD_JSON_TMP == BOARD_JSON \o DOT_TMP
BOARDS_JSON_TMP == <<"b", "o", "a", "r", "d", "s", ".", "j", "s", "o", "n">> \o DOT_TMP

RenameFailed == "rename failed"

\* Faulty variant: the board's text is written to board.json itself.
tmp_path_in_place(target, id) ==
  IF target = "index" THEN <<BOARDS_JSON_TMP>>
  ELSE board_file(board_dir(id))

\* paths.tmp of board_paths, and index_file.with_extension("json.tmp")
tmp_path(target, id) ==
  IF target = "index" THEN <<BOARDS_JSON_TMP>>
  ELSE board_dir(id) \o <<BOARD_JSON_TMP>>

file_path(target, id, where) ==
  IF where = "tmp" THEN tmp_path(target, id) ELSE board_file(board_dir(id))

\* The index file is the variable indexFile, every other file is in fs.
IsIndexFile(target, where) == target = "index" /\ where = "dest"

\* serde_json::to_string_pretty(&BoardIndex)
index_to_json(boards) == [wellformed |-> TRUE, boards |-> boards]

\* A file that was created or truncated and is not written to the end: no
\* parser accepts it.
Unfinished(target) ==
  IF target = "index" THEN [wellformed |-> FALSE, boards |-> <<>>] ELSE Garbage

\* st is [fs, idx]; the text of a file, None when the file does not exist.
read_file(st, target, id, where) ==
  IF IsIndexFile(target, where)
  THEN IF st.idx.exists
       THEN Some([wellformed |-> st.idx.wellformed, boards |-> st.idx.boards])
       ELSE None
  ELSE IF file_path(target, id, where) \in DOMAIN st.fs.files
       THEN Some(st.fs.files[file_path(target, id, where)].content)
       ELSE None

put_file(st, target, id, where, text, now) ==
  IF IsIndexFile(target, where)
  THEN [st EXCEPT !.idx = [exists |-> TRUE, wellformed |-> text.wellformed,
                           boards |-> text.boards]]
  ELSE [st EXCEPT !.fs.files =
          (file_path(target, id, where) :> [content |-> text, mtime |-> now]) @@ @]

remove_file(st, target, id, where) ==
  IF IsIndexFile(target, where)
  THEN [st EXCEPT !.idx = [exists |-> FALSE, wellformed |-> FALSE, boards |-> <<>>]]
  ELSE [st EXCEPT !.fs.files = Restrict(@, DOMAIN @ \ {file_path(target, id, where)})]

Now == [fs |-> fs, idx |-> indexFile]

Writer(pc, target, id, board, text, old, phase, handle, err, index) ==
  [pc |-> pc, target |-> target, id |-> id, board |-> board, text |-> text,
   old |-> old, phase |-> phase, handle |-> handle, err |-> err, index |-> index]

IdleWriter == Writer("idle", "none", <<>>, <<>>, <<>>, None, "none", "none", NoErr, <<>>)

Writers == DOMAIN procs.writers

\* The handles of the writers other than w after the file at `from` became
\* the file at `to` (a rename) or lost its name (a removal, to = "unlinked").
MoveHandles(ws, w, from, to) ==
  [v \in DOMAIN ws |->
     IF v # w /\ ws[v].handle = from THEN [ws[v] EXCEPT !.handle = to] ELSE ws[v]]

\* std::fs::write, first half: File::create makes the temp file or truncates
\* the one that is there; the writer holds a handle on it.
create_tmp(w) ==
  LET me == procs.writers[w]
      st == put_file(Now, me.target, me.id, "tmp", Unfinished(me.target), clock)
  IN /\ me.pc = "create"
     /\ fs' = st.fs
     /\ indexFile' = st.idx
     /\ procs' = [procs EXCEPT !.writers[w].pc = "write", !.writers[w].handle = "tmp"]
     /\ UNCHANGED <<clock, ret, net>>

\* The texts a file can hold after write_all through a handle opened before
\* another writer wrote the file to the end: the two texts overlap, and the
\* result is the new text or, when the other text was longer, unfinished.
write_all(cur, target, text) ==
  IF cur = Some(Unfinished(target)) \/ cur = Some(text) THEN {text}
  ELSE {text, Unfinished(target)}

\* std::fs::write, second half: the text goes to the file the handle is on,
\* whatever its name is by now; the handle is closed.
write_tmp(w) ==
  LET me == procs.writers[w]
  IN /\ me.pc = "write"
     /\ IF me.handle = "unlinked"
        THEN UNCHANGED <<fs, indexFile>>
        ELSE \E text \in write_all(read_file(Now, me.target, me.id, me.handle),
                                   me.target, me.text) :
               LET st == put_file(Now, me.target, me.id, me.handle, text, clock)
               IN fs' = st.fs /\ indexFile' = st.idx
     /\ procs' = [procs EXCEPT !.writers[w].pc = "remove", !.writers[w].handle = "none"]
     /\ UNCHANGED <<clock, ret, net>>

\* if file.exists() { let _ = remove_file(file) }
remove_old(w) ==
  LET me == procs.writers[w]
      there == read_file(Now, me.target, me.id, "dest") # None
      st == IF there THEN remove_file(Now, me.target, me.id, "dest") ELSE Now
  IN /\ me.pc = "remove"
     /\ fs' = st.fs
     /\ indexFile' = st.idx
     /\ procs' = [procs EXCEPT
          !.writers = [(IF there THEN MoveHandles(@, w, "dest", "unlinked") ELSE @)
                         EXCEPT ![w].pc = "rename"]]
     /\ UNCHANGED <<clock, ret, net>>

\* std::fs::rename(tmp, file): fails when the temp file is not there.
rename_tmp(w) ==
  LET me == procs.writers[w]
      tmp == read_file(Now, me.target, me.id, "tmp")
      st == remove_file(
              put_file(Now, me.target, me.id, "dest", tmp[1],
                       fs.files[tmp_path(me.target, me.id)].mtime),
              me.target, me.id, "tmp")
  IN /\ me.pc = "rename"
     /\ IF tmp = None
        THEN /\ UNCHANGED <<fs, indexFile>>
             /\ procs' = [procs EXCEPT !.writers[w].pc = "failed",
                                       !.writers[w].err = RenameFailed]
        ELSE /\ fs' = st.fs
             /\ indexFile' = st.idx
             /\ procs' = [procs EXCEPT
                  !.writers = [MoveHandles(MoveHandles(@, w, "dest", "unlinked"),
                                           w, "tmp", "dest")
                                 EXCEPT ![w].pc = "renamed"],
                  !.last_rename = w]
     /\ UNCHANGED <<clock, ret, net>>

-----------------------------------------------------------------------------
(* One writer, and a crash of the process at any step *)

CrashId == UserId

CrashBoards ==
  [id : {CrashId}, name : SaveNames, cards : CardLists, columns : {<<>>}]

CrashIndexes ==
  {<<>>} \cup {<<[id |-> CrashId, name |-> n, updated_at |-> 1, deleted_at |-> None]>> :
                 n \in SaveNames \cup CreateNames}

\* The first start: the root is empty, setup has not written the index yet.
InitCrash ==
  /\ fs = EmptyFs
  /\ indexFile = [exists |-> FALSE, wellformed |-> FALSE, boards |-> <<>>]
  /\ clock = 1
  /\ ret = Returned("none", <<>>, <<>>, NoErr, <<>>, NoRead)
  /\ procs = [writers |-> [w \in {"w1"} |-> IdleWriter], last_rename |-> "none"]
  /\ net = <<>>

\* A call of write_board_atomic in a board directory that exists.
begin_board(w) ==
  /\ procs.writers[w].pc = "idle"
  /\ \E board \in CrashBoards :
       LET f1 == create_dir_all(fs, board_assets(board_dir(board.id)))
       IN /\ fs' = f1
          /\ procs' = [procs EXCEPT !.writers[w] =
               Writer("create", "board", board.id, board, to_json(board),
                      read_file([fs |-> f1, idx |-> indexFile], "board", board.id, "dest"),
                      "doc", "none", NoErr, <<>>)]
  /\ UNCHANGED <<indexFile, clock, ret, net>>

\* A call of write_index_atomic.
begin_index(w) ==
  /\ procs.writers[w].pc = "idle"
  /\ \E boards \in CrashIndexes :
       procs' = [procs EXCEPT !.writers[w] =
         Writer("create", "index", <<>>, <<>>, index_to_json(boards),
                read_file(Now, "index", <<>>, "dest"), "doc", "none", NoErr, boards)]
  /\ UNCHANGED <<fs, indexFile, clock, ret, net>>

\* The call returns.
finish(w) ==
  /\ procs.writers[w].pc \in {"renamed", "failed"}
  /\ procs' = [procs EXCEPT !.writers[w].pc = "idle"]
  /\ ret' = Returned(IF procs.writers[w].target = "index" THEN "write_index_atomic"
                     ELSE "write_board_atomic",
                     procs.writers[w].id, procs.writers[w].board,
                     procs.writers[w].err, <<>>, NoRead)
  /\ UNCHANGED <<fs, indexFile, clock, net>>

\* The process dies; files stay as they are, open handles are gone.
crash(w) ==
  /\ procs.writers[w].pc \in {"create", "write", "remove", "rename", "renamed"}
  /\ procs' = [procs EXCEPT !.writers[w].pc = "crashed", !.writers[w].handle = "none"]
  /\ UNCHANGED <<fs, indexFile, clock, ret, net>>

\* The application is started again.
restart(w) ==
  /\ procs.writers[w].pc = "crashed"
  /\ procs' = [procs EXCEPT !.writers[w] = IdleWriter]
  /\ UNCHANGED <<fs, indexFile, clock, ret, net>>

NextCrash ==
  \/ \E w \in Writers : begin_board(w)
  \/ \E w \in Writers : begin_index(w)
  \/ \E w \in Writers : create_tmp(w)
  \/ \E w \in Writers : write_tmp(w)
  \/ \E w \in Writers : remove_old(w)
  \/ \E w \in Writers : rename_tmp(w)
  \/ \E w \in Writers : finish(w)
  \/ \E w \in Writers : crash(w)
  \/ \E w \in Writers : restart(w)

SpecCrash == InitCrash /\ [][NextCrash]_vars

-----------------------------------------------------------------------------
(* Two save_board calls for one board run at the same time, each a step at *)
(* a time, and a reader reads board.json between any two steps.            *)

RaceId == BoardPrefix \o Decimal(1)

\* The document each call saves.
RaceDoc(w) ==
  [id |-> RaceId, name |-> <<"N">>,
   cards |-> IF w = "w1" THEN <<"c">> ELSE <<"d">>, columns |-> <<>>]

\* The state after create_board("T") on an empty root at time 1.
InitRace ==
  /\ fs = ensure_board_file(EmptyFs, RaceId, <<"T">>, 1)
  /\ indexFile = write_index_atomic(
       <<[id |-> RaceId, name |-> <<"T">>, updated_at |-> 1, deleted_at |-> None]>>)
  /\ clock = 1
  /\ ret = Returned("create_board", RaceId, <<"T">>, NoErr, <<>>, NoRead)
  /\ procs = [writers |-> [w \in {"w1", "w2"} |-> IdleWriter], last_rename |-> "none"]
  /\ net = <<>>

\* save_board up to ensure_board_file's create_dir_all: the checks of the
\* arguments pass, read_index runs, a deleted board is refused.
save_board_enter(w) ==
  LET board == RaceDoc(w)
  IN /\ procs.writers[w].pc = "idle"
     /\ \E r \in ReadIndexOutcomes(fs, indexFile) :
          /\ indexFile' = IndexAfterRead(indexFile, r)
          /\ IF save_check(r.boards, board.id) # NoErr
             THEN /\ fs' = fs
                  /\ procs' = [procs EXCEPT !.writers[w] =
                       Writer("returned", "board", board.id, board, <<>>, None,
                              "none", "none", save_check(r.boards, board.id), r.boards)]
             ELSE /\ fs' = create_dir_all(fs, board_assets(board_dir(board.id)))
                  /\ procs' = [procs EXCEPT !.writers[w] =
                       Writer("ensure", "board", board.id, board, <<>>, None,
                              "none", "none", NoErr, r.boards)]
     /\ UNCHANGED <<clock, ret, net>>

\* ensure_board_file: if !paths.file.exists() an empty board is written
\* first; then save_board writes the document.
ensure_exists(w) ==
  LET me == procs.writers[w]
      there == exists(fs, board_file(board_dir(me.id)))
  IN /\ me.pc = "ensure"
     /\ procs' = [procs EXCEPT !.writers[w] =
          [me EXCEPT !.pc = "create",
                     !.phase = IF there THEN "doc" ELSE "empty",
                     !.text = IF there THEN to_json(me.board)
                              ELSE to_json(empty_board(me.id, me.board.name)),
                     !.old = read_file(Now, "board", me.id, "dest")]]
     /\ UNCHANGED <<fs, indexFile, clock, ret, net>>

\* The empty board is written: write_board_atomic is called for the document.
write_document(w) ==
  LET me == procs.writers[w]
  IN /\ me.pc = "renamed"
     /\ me.phase = "empty"
     /\ procs' = [procs EXCEPT !.writers[w] =
          [me EXCEPT !.pc = "create", !.phase = "doc", !.text = to_json(me.board),
                     !.old = read_file(Now, "board", me.id, "dest")]]
     /\ UNCHANGED <<fs, indexFile, clock, ret, net>>

\* The document is written: ensure_board_index_contains puts the entry into
\* the index read at the start and writes it; save_board returns Ok.
save_board_return(w) ==
  LET me == procs.writers[w]
  IN /\ me.pc = "renamed"
     /\ me.phase = "doc"
     /\ indexFile' = write_index_atomic(
          ensure_board_index_contains(me.index, me.id, me.board.name, clock))
     /\ procs' = [procs EXCEPT !.writers[w].pc = "returned"]
     /\ ret' = Returned("save_board", me.id, me.board, NoErr, <<>>, NoRead)
     /\ UNCHANGED <<fs, clock, net>>

\* A rename failed: save_board returns the error.
save_board_fail(w) ==
  LET me == procs.writers[w]
  IN /\ me.pc = "failed"
     /\ procs' = [procs EXCEPT !.writers[w].pc = "returned"]
     /\ ret' = Returned("save_board", me.id, me.board, me.err, <<>>, NoRead)
     /\ UNCHANGED <<fs, indexFile, clock, net>>

\* A reader: std::fs::read_to_string(&board_paths.file) of load_board.
read_to_string(board_id) ==
  /\ exists(fs, board_file(board_dir(board_id)))
  /\ ret' = Returned("read_to_string", board_id, <<>>, NoErr,
                     fs.files[board_file(board_dir(board_id))].content, NoRead)
  /\ UNCHANGED <<fs, indexFile, clock, procs, net>>

NextRace ==
  \/ \E w \in Writers : save_board_enter(w)
  \/ \E w \in Writers : ensure_exists(w)
  \/ \E w \in Writers : create_tmp(w)
  \/ \E w \in Writers : write_tmp(w)
  \/ \E w \in Writers : remove_old(w)
  \/ \E w \in Writers : rename_tmp(w)
  \/ \E w \in Writers : write_document(w)
  \/ \E w \in Writers : save_board_return(w)
  \/ \E w \in Writers : save_board_fail(w)
  \/ read_to_string(RaceId)

SpecRace == InitRace /\ [][NextRace]_vars

-----------------------------------------------------------------------------
(* load_board on every kind of stored document: a document of the board, a  *)
(* document with another id, a document without the columns key, a text     *)
(* that is no document, and bytes that are no text.                         *)

LoadId == BoardPrefix \o Decimal(1)

LoadNames == {<<"N">>, <<"T">>}

StoredBoards == [id : {LoadId, OtherId}, name : LoadNames, cards : CardLists, columns : {<<>>}]

StoredDocuments ==
  {to_json(b) : b \in StoredBoards}
    \cup {[to_json(b) EXCEPT !.keys = @ \ {"columns"}] : b \in StoredBoards}
    \cup {Garbage, NotUtf8}

\* The board directory with the stored document, written at time 1, and an
\* index that has the board or is empty.
InitLoad ==
  /\ \E text \in StoredDocuments :
       fs = [dirs |-> {board_dir(LoadId), board_assets(board_dir(LoadId))},
             files |-> (board_file(board_dir(LoadId)) :> [content |-> text, mtime |-> 1])]
  /\ \E boards \in {<<>>} \cup {<<[id |-> LoadId, name |-> n, updated_at |-> 1,
                                   deleted_at |-> None]>> : n \in LoadNames} :
       indexFile = write_index_atomic(boards)
  /\ clock = 1
  /\ ret = Returned("none", <<>>, <<>>, NoErr, <<>>, NoRead)
  /\ procs = NoProcs
  /\ net = <<>>

NextLoad ==
  \/ (load_board(LoadId) /\ Quiet)
  \/ (list_boards /\ Quiet)
  \/ (Tick /\ Quiet)

SpecLoad == InitLoad /\ [][NextLoad]_vars

-----------------------------------------------------------------------------
(* Two create_board calls run at the same time, each a step at a time:     *)
(* read_index, generate_board_id, ensure_board_file, write_index_atomic.   *)
(* procs holds the position of each call and what it has read so far.      *)

Creator(pc, name, index, id, meta) ==
  [pc |-> pc, name |-> name, index |-> index, id |-> id, meta |-> meta]

\* The name each call is given.
CreatorName(c) == IF c = "c1" THEN <<"A">> ELSE <<"B">>

Creators == DOMAIN procs.creators

InitCreate ==
  /\ fs = EmptyFs
  /\ indexFile = write_index_atomic(<<>>)
  /\ clock = 1
  /\ ret = Returned("setup", <<>>, <<>>, NoErr, <<>>,
                    [boards |-> <<>>, wrote |-> TRUE, path |-> "rebuild"])
  /\ procs = [creators |-> [c \in {"c1", "c2"} |->
                              Creator("idle", CreatorName(c), <<>>, <<>>, <<>>)]]
  /\ net = <<>>

\* let index = read_index(&paths)?
create_read_index(c) ==
  /\ procs.creators[c].pc = "idle"
  /\ \E r \in ReadIndexOutcomes(fs, indexFile) :
       /\ indexFile' = IndexAfterRead(indexFile, r)
       /\ procs' = [procs EXCEPT !.creators[c].pc = "generate",
                                 !.creators[c].index = r.boards]
  /\ UNCHANGED <<fs, clock, ret, net>>

\* let board_id = generate_board_id(&paths, &index)
create_generate_id(c) ==
  /\ procs.creators[c].pc = "generate"
  /\ procs' = [procs EXCEPT
       !.creators[c].pc = "ensure",
       !.creators[c].id = generate_board_id(fs, procs.creators[c].index, clock)]
  /\ UNCHANGED <<fs, indexFile, clock, ret, net>>

\* ensure_board_file(&board_paths, &board_id, safe_name)?
create_ensure_file(c) ==
  LET me == procs.creators[c]
      safe_name == IF trim(me.name) = <<>> THEN Untitled ELSE trim(me.name)
  IN /\ me.pc = "ensure"
     /\ fs' = ensure_board_file(fs, me.id, safe_name, clock)
     /\ procs' = [procs EXCEPT !.creators[c].pc = "write"]
     /\ UNCHANGED <<indexFile, clock, ret, net>>

\* The entry is pushed to the index read at the start, the index is written
\* and the entry returned.
create_write_index(c) ==
  LET me == procs.creators[c]
      safe_name == IF trim(me.name) = <<>> THEN Untitled ELSE trim(me.name)
      meta == [id |-> me.id, name |-> safe_name, updated_at |-> clock, deleted_at |-> None]
  IN /\ me.pc = "write"
     /\ indexFile' = write_index_atomic(Append(me.index, meta))
     /\ procs' = [procs EXCEPT !.creators[c].pc = "returned", !.creators[c].meta = meta]
     /\ ret' = Returned("create_board", me.id, me.name, NoErr, meta, NoRead)
     /\ UNCHANGED <<fs, clock, net>>

NextCreate ==
  \/ \E c \in Creators : create_read_index(c)
  \/ \E c \in Creators : create_generate_id(c)
  \/ \E c \in Creators : create_ensure_file(c)
  \/ \E c \in Creators : create_write_index(c)
  \/ (list_boards /\ Quiet)
  \/ (Tick /\ Quiet)

SpecCreate == InitCreate /\ [][NextCreate]_vars

-----------------------------------------------------------------------------
(* Every command that takes a board id, with ids the validator rejects *)

InvalidIds == {BadId, <<>>, <<"a", "/", "b">>}

Chats == {[version |-> 1, messages |-> <<"m">>]}
Filenames == {<<".", ".", "/", "a">>}
Base64Inputs == {[ok |-> TRUE, bytes |-> "bytes"], [ok |-> FALSE, bytes |-> ""]}
FetchUrls ==
  {Url("https", "domain", EXAMPLE_COM), Url("http", "domain", LOCALHOST),
   Url("http", "ipv4", Dotted(127, 0, 0, 1)),
   Url("ftp", "domain", EXAMPLE_COM), Url("", "unparsable", <<>>)}

IdCommands ==
  {"delete_board", "restore_board", "load_board", "save_board", "load_chat",
   "save_chat", "save_image", "get_assets_dir", "fetch_link_metadata"}

NextIds ==
  \/ (Cardinality(PresentIds) < MaxBoards /\ Quiet
        /\ \E name \in CdrNames : create_board(name))
  \/ \E id \in PresentIds \cup InvalidIds : (delete_board(id) /\ Quiet)
  \/ \E id \in PresentIds \cup InvalidIds : (restore_board(id) /\ Quiet)
  \/ \E id \in PresentIds \cup InvalidIds : (get_assets_dir(id) /\ Quiet)
  \/ \E id \in PresentIds \cup InvalidIds : (load_board(id) /\ Quiet)
  \/ \E id \in PresentIds \cup InvalidIds : \E board \in SaveBoards(id) :
       (save_board(id, board) /\ Quiet)
  \/ \E id \in PresentIds \cup InvalidIds : (load_chat(id) /\ Quiet)
  \/ \E id \in PresentIds \cup InvalidIds : \E chat \in Chats :
       (save_chat(id, chat) /\ Quiet)
  \/ \E id \in PresentIds \cup InvalidIds : \E filename \in Filenames, b64 \in Base64Inputs :
       (save_image(id, filename, b64) /\ Quiet)
  \/ \E id \in PresentIds \cup InvalidIds : \E url \in FetchUrls :
       (Len(net) < MaxRequests
          /\ fetch_link_metadata(id, url, PlainPage(url), PlainImage)
          /\ UNCHANGED procs)

SpecIds == Init /\ [][NextIds]_vars

-----------------------------------------------------------------------------
(* fetch_link_metadata with every answer of the network *)

NextFetch ==
  \/ (Cardinality(PresentIds) < MaxBoards /\ Quiet
        /\ \E name \in CdrNames : create_board(name))
  \/ \E id \in CmdIds : \E url \in FetchUrls :
       \E page \in PageAnswers(url), ia \in ImageAnswers :
         (Room(id) /\ Len(net) < MaxRequests
            /\ fetch_link_metadata(id, url, page, ia)
            /\ UNCHANGED procs)
  \/ (Tick /\ Quiet)

SpecFetch == Init /\ [][NextFetch]_vars

-----------------------------------------------------------------------------
(* The identifier validator on its own: is_valid_board_id applied to every  *)
(* string of up to MaxIdLen characters over IdAlphabet and to strings       *)
(* around the length limit.                                                 *)

IdAlphabet == {"/", "\\", ".", "-", "_", "a", "Z", "0", NonAscii}

Repeat(c, n) == [i \in 1..n |-> c]

ShortStrings == UNION {[1..n -> IdAlphabet] : n \in 0..MaxIdLen}

\* 62..66 characters: all "a", or all "a" but the last character.
LongStrings ==
  {Repeat("a", n) : n \in 62..66}
    \cup {Repeat("a", n) \o <<c>> : n \in 62..65, c \in IdAlphabet}

IdStrings == ShortStrings \cup LongStrings

InitValidate ==
  /\ fs = EmptyFs
  /\ indexFile = write_index_atomic(<<>>)
  /\ clock = 1
  /\ ret \in {Returned("none", x, <<>>, NoErr, <<>>, NoRead) : x \in IdStrings}
  /\ procs = NoProcs
  /\ net = <<>>

validate ==
  /\ ret.cmd = "none"
  /\ ret' = Returned("is_valid_board_id", ret.id, <<>>, NoErr,
                     is_valid_board_id(ret.id), NoRead)
  /\ UNCHANGED <<fs, indexFile, clock>>

NextValidate == validate /\ Quiet

SpecValidate == InitValidate /\ [][NextValidate]_vars

-----------------------------------------------------------------------------
(* The safety gate on its own: is_safe_url applied to parsed URLs *)

InitUrl ==
  /\ fs = EmptyFs
  /\ indexFile = write_index_atomic(<<>>)
  /\ clock = 1
  /\ ret \in {Returned("none", <<>>, url, NoErr, <<>>, NoRead) : url \in Urls}
  /\ procs = NoProcs
  /\ net = <<>>

check_url ==
  /\ ret.cmd = "none"
  /\ ret' = Returned("is_safe_url", <<>>, ret.arg, NoErr, is_safe_url(ret.arg), NoRead)
  /\ UNCHANGED <<fs, indexFile, clock>>

NextUrl == check_url /\ Quiet

SpecUrl == InitUrl /\ [][NextUrl]_vars

-----------------------------------------------------------------------------
(* Claims *)

HasDoc(f, dir) == dir \in f.dirs /\ board_file(dir) \in DOMAIN f.files

\* The ids with a directory under the root or under the trash directory.
DirIds == (read_dir(fs, <<>>) \ {TRASH}) \cup read_dir(fs, trash_dir)

EntriesOf(boards, id) == {i \in 1..Len(boards) : boards[i].id = id}

\* A step taken by a command (the clock stands still), not by the clock.
CommandStep == clock' = clock

\* C1: after any sequence of create_board / delete_board / restore_board
\* calls from an empty root, no id has a directory both under the root and
\* under the trash directory, and the persisted index has exactly one entry
\* for each id with a directory, deleted exactly when the directory is in
\* the trash.
C1_OneDirOneEntry ==
  \A id \in DirIds :
    /\ ~(<<id>> \in fs.dirs /\ <<TRASH, id>> \in fs.dirs)
    /\ Cardinality(EntriesOf(indexFile.boards, id)) = 1
    /\ \A i \in EntriesOf(indexFile.boards, id) :
         is_deleted(indexFile.boards[i]) <=> <<TRASH, id>> \in fs.dirs

\* A board was restored while another one is in the trash.
C1_Witness ==
  /\ ret.cmd = "restore_board" /\ ret.err = NoErr
  /\ \E a, b \in DirIds : <<a>> \in fs.dirs /\ <<TRASH, b>> \in fs.dirs

\* C2: every entry of the index a read_index returns (rebuild or reconcile)
\* has its directory with a board document: under the root when deleted_at
\* is absent, under the trash directory when it is present.
C2_NoPhantomEntry ==
  ret.cmd \in {"list_boards", "list_trashed_boards"} =>
    \A i \in 1..Len(ret.index) :
      IF is_active(ret.index[i])
      THEN HasDoc(fs, <<ret.index[i].id>>)
      ELSE HasDoc(fs, <<TRASH, ret.index[i].id>>)

\* A reconcile pass pruned every stored entry although a directory exists.
C2_Witness ==
  /\ ret.cmd = "list_boards" /\ ret.path = "sync" /\ ret.wrote
  /\ ret.index = <<>>
  /\ fs.dirs # {}

\* C3: a single read_index returns an active entry for every valid-id
\* directory under the root that holds a board document, so list_boards
\* lists it.
C3_ListsEveryActiveBoard ==
  ret.cmd = "list_boards" =>
    \A id \in Candidates(fs, <<>>) :
      /\ \E i \in 1..Len(ret.index) : ret.index[i].id = id /\ is_active(ret.index[i])
      /\ \E i \in 1..Len(ret.val) : ret.val[i].id = id

\* C4: every persisted index has at most one entry per board id.
C4_OneEntryPerId ==
  \A id \in IndexIds(indexFile.boards) :
    Cardinality(EntriesOf(indexFile.boards, id)) = 1

\* C5: generate_board_id never returns the id of an entry of the index it is
\* given, nor the name of a board directory under the root or under the
\* trash directory, however stale that index is.
C5_FreshId ==
  ret.cmd = "generate_board_id" =>
    /\ ret.val \notin IndexIds(ret.index)
    /\ <<ret.val>> \notin fs.dirs
    /\ <<TRASH, ret.val>> \notin fs.dirs

\* C6: when save_board(id, b) succeeded, a load_board(id) directly after it
\* returns b and leaves the stored document equal to b.
C6_RoundTrip ==
  (ret.cmd = "load_board" /\ ret.follows # None) =>
    /\ ret.err = NoErr
    /\ ret.val = ret.follows[1]
    /\ HasDoc(fs, <<ret.id>>)
    /\ from_json(fs.files[board_file(<<ret.id>>)].content) = Some(ret.follows[1])

\* A document with a card was saved and loaded back.
C6_Witness ==
  /\ ret.cmd = "load_board" /\ ret.follows # None
  /\ ret.val.cards # <<>>

BothLists == {"list_boards", "list_trashed_boards"}

\* C7: after one reconcile pass, a second one with no filesystem change in
\* between writes no index and returns the index the first one returned.
C7_ReconcileIdempotent ==
  [][(/\ CommandStep
      /\ ret.cmd \in BothLists /\ ret.path = "sync"
      /\ ret'.cmd \in BothLists /\ ret'.path = "sync")
       => (~ret'.wrote /\ ret'.index = ret.index)]_vars

Unknown(id) ==
  /\ id \notin IndexIds(indexFile.boards)
  /\ ~exists(fs, <<id>>)
  /\ ~exists(fs, <<TRASH, id>>)

\* C8 as stated: delete_board of an id with no index entry and no directory
\* returns NotFound, and restore_board returns AlreadyExists whenever the
\* directory <root>/<id> exists; no directory is moved.
C8_AsStated ==
  [][(CommandStep /\ is_valid_board_id(ret'.id)) =>
       /\ (ret'.cmd = "delete_board" /\ Unknown(ret'.id))
            => (ret'.err = NotFound /\ fs' = fs)
       /\ (ret'.cmd = "restore_board" /\ exists(fs, <<ret'.id>>))
            => (ret'.err = AlreadyExists /\ fs' = fs)]_vars

\* C8 amended: delete_board of an id with no index entry and no directory
\* returns NotFound; restore_board returns AlreadyExists when both
\* <root>/trash/<id> and <root>/<id> exist, and NotFound ('board not found
\* in trash') when <root>/trash/<id> does not exist, whether or not
\* <root>/<id> exists; no directory is moved.
C8_DeleteRestoreErrors ==
  [][(CommandStep /\ is_valid_board_id(ret'.id)) =>
       /\ (ret'.cmd = "delete_board" /\ Unknown(ret'.id))
            => (ret'.err = NotFound /\ fs' = fs)
       /\ (ret'.cmd = "restore_board" /\ exists(fs, <<TRASH, ret'.id>>)
             /\ exists(fs, <<ret'.id>>))
            => (ret'.err = AlreadyExists /\ fs' = fs)
       /\ (ret'.cmd = "restore_board" /\ ~exists(fs, <<TRASH, ret'.id>>))
            => (ret'.err = NotFoundInTrash /\ fs' = fs)]_vars

\* restore_board refused an id that is both under the root and in the trash.
C8_Witness ==
  /\ ret.cmd = "restore_board" /\ ret.err = AlreadyExists
  /\ exists(fs, <<ret.id>>) /\ exists(fs, <<TRASH, ret.id>>)

\* The id is in the trash: its entries are deleted, its directory is there.
Trashed(id) ==
  /\ EntriesOf(indexFile.boards, id) # {}
  /\ \A i \in EntriesOf(indexFile.boards, id) : is_deleted(indexFile.boards[i])
  /\ HasDoc(fs, <<TRASH, id>>)
  /\ ~exists(fs, <<id>>)

\* C9: delete_board of an id that is already in the trash fails with
\* NotFound and leaves the entry's deleted_at and the trash directory as
\* they were.
C9_DeleteTrashedNotFound ==
  [][(/\ CommandStep
      /\ ret'.cmd = "delete_board"
      /\ is_valid_board_id(ret'.id)
      /\ Trashed(ret'.id))
       => (/\ ret'.err = NotFound
           /\ fs' = fs
           /\ \A i \in EntriesOf(indexFile'.boards, ret'.id) :
                \E j \in EntriesOf(indexFile.boards, ret'.id) :
                  indexFile'.boards[i].deleted_at = indexFile.boards[j].deleted_at)]_vars

MarkedDeleted(boards, id) ==
  \E i \in EntriesOf(boards, id) : is_deleted(boards[i])

\* C10: save_board(id, board) with a valid id returns IdMismatch when
\* board.id # id, and AlreadyDeleted when the index read at the start of the
\* call marks id deleted; in both cases no directory or document changes
\* and the entry stays deleted.
C10_SaveRefusals ==
  [][(CommandStep /\ ret'.cmd = "save_board" /\ is_valid_board_id(ret'.id)) =>
       /\ ret'.arg.id # ret'.id
            => (ret'.err = IdMismatch /\ fs' = fs /\ indexFile' = indexFile)
       /\ (ret'.arg.id = ret'.id /\ MarkedDeleted(ret'.index, ret'.id))
            => (/\ ret'.err = AlreadyDeleted
                /\ fs' = fs
                /\ \A i \in EntriesOf(indexFile'.boards, ret'.id) :
                     is_deleted(indexFile'.boards[i]))]_vars

\* save_board refused a board that is in the trash.
C10_Witness ==
  /\ ret.cmd = "save_board" /\ ret.err = AlreadyDeleted
  /\ HasDoc(fs, <<TRASH, ret.id>>)

\* The pattern [A-Za-z0-9_-]{1,64}, with no ".." inside.
IdChars == Lower \cup Upper \cup DigitSet \cup {"-", "_"}
MatchesIdPattern(x) ==
  /\ Len(x) \in 1..64
  /\ \A i \in 1..Len(x) : x[i] \in IdChars
  /\ ~\E i \in 1..(Len(x) - 1) : <<x[i], x[i + 1]>> = <<".", ".">>

\* C20: for every string x over the alphabet (with '/', '\', '.', '-', '_',
\* letters, digits and a non-ASCII character), is_valid_board_id(x) is true
\* exactly when x has 1..64 characters, all in [A-Za-z0-9_-], and no "..".
C20_ValidatorIsPattern ==
  ret.cmd = "is_valid_board_id" => (ret.val <=> MatchesIdPattern(ret.id))

\* An id of exactly 64 characters was accepted.
C20_Witness ==
  /\ ret.cmd = "is_valid_board_id" /\ ret.val
  /\ Len(ret.id) = 64

\* The address an internal host names, whatever way the URL writes it.
InternalAddress(url) ==
  \/ /\ url.kind = "ipv4"
     /\ LET o == parse_ipv4(url.text)[1].parts
        IN \/ v4_is_private(o) \/ v4_is_loopback(o)
           \/ v4_is_link_local(o) \/ v4_is_unspecified(o)
  \/ /\ url.kind = "ipv6"
     /\ LET g == parse_ipv6(url.text)[1].parts
        IN \/ v6_is_loopback(g) \/ v6_is_unicast_link_local(g)
           \/ v6_is_unique_local(g) \/ v6_is_unspecified(g)

InternalHost(url) ==
  \/ (url.kind = "domain" /\ (url.text = LOCALHOST \/ ends_with(url.text, DOT_LOCAL)))
  \/ InternalAddress(url)

\* C19: is_safe_url rejects a URL whose host is localhost, ends with .local,
\* or is a private, loopback, link-local or unspecified IPv4 or IPv6
\* address, and accepts https://example.com/.
C19_RejectsInternalHosts ==
  ret.cmd = "is_safe_url" =>
    /\ InternalHost(ret.arg) => ~ret.val
    /\ ret.arg = Url("https", "domain", EXAMPLE_COM) => ret.val

\* C11: each command that takes a board id answers an id outside the
\* pattern with InvalidIdentifier, without reading the index, changing a
\* file or directory, or sending a request.
C11_InvalidIdFailsFast ==
  [][(CommandStep /\ ret'.cmd \in IdCommands /\ ~MatchesIdPattern(ret'.id)) =>
       /\ ret'.err = InvalidIdentifier
       /\ ret'.path = "none"
       /\ fs' = fs /\ indexFile' = indexFile /\ net' = net]_vars

\* fetch_link_metadata refused an id with a slash while a board exists.
C11_Witness ==
  /\ ret.cmd = "fetch_link_metadata" /\ ret.err = InvalidIdentifier
  /\ ContainsChar(ret.id, "/")
  /\ fs.dirs # {}

\* C18: every page request and every image request goes to a URL that
\* passes is_safe_url, and the final URL whose page was parsed and returned
\* passes is_safe_url.
C18_GateAtThreePoints ==
  /\ \A i \in 1..Len(net) :
       net[i].kind \in {"page", "image"} => is_safe_url(net[i].url)
  /\ (ret.cmd = "fetch_link_metadata" /\ ret.err = NoErr) => is_safe_url(ret.val.url)

ValIds == {ret.val[i].id : i \in 1..Len(ret.val)}

\* C12: after create_board and save_board(id, b), delete_board(id) succeeds
\* and puts id in list_trashed_boards and out of list_boards; a following
\* restore_board(id) succeeds and puts id back in list_boards and out of
\* list_trashed_boards, and load_board(id) then returns the cards of b.
C12_SoftDeleteLifecycle ==
  LET c == procs.client
  IN /\ (c.pc = "deleted" /\ ret.cmd = "delete_board") => ret.err = NoErr
     /\ (c.pc = "deleted" /\ ret.cmd = "list_trashed_boards") => c.id \in ValIds
     /\ (c.pc = "deleted" /\ ret.cmd = "list_boards") => c.id \notin ValIds
     /\ (c.pc = "restored" /\ ret.cmd = "restore_board") => ret.err = NoErr
     /\ (c.pc = "restored" /\ ret.cmd = "list_boards") => c.id \in ValIds
     /\ (c.pc = "restored" /\ ret.cmd = "list_trashed_boards") => c.id \notin ValIds
     /\ (c.pc = "loaded" /\ ret.cmd = "load_board") =>
          (ret.err = NoErr /\ ret.val.cards = c.board.cards /\ ret.val.id = c.id)

\* A board with a card went through the trash and was loaded back.
C12_Witness ==
  /\ procs.client.pc = "loaded" /\ ret.cmd = "load_board"
  /\ ret.val.cards # <<>>

\* C13: right after an empty_trash that returned Ok the stored index has no
\* entry with deleted_at and the trash directory does not exist; while no
\* delete_board has been called since, every list_trashed_boards returns the
\* empty list and restore_board of a board that was in the trash returns
\* "board not found in trash".
C13_EmptyTrashClears ==
  /\ (ret.cmd = "empty_trash" /\ ret.err = NoErr) =>
       /\ DeletedIds(indexFile.boards) = {}
       /\ ~exists(fs, trash_dir)
  /\ (procs.caller.emptied /\ ret.cmd = "list_trashed_boards") => ret.val = <<>>
  /\ (procs.caller.emptied /\ ret.cmd = "restore_board"
        /\ ret.id \in procs.caller.trashed) => ret.err = NotFoundInTrash

\* A board was in the trash when it was emptied, and a restore_board of it
\* has been answered since.
C13_Witness ==
  /\ procs.caller.emptied
  /\ ret.cmd = "restore_board"
  /\ ret.id \in procs.caller.trashed

\* C14: list_trashed_boards returns exactly the entries of the index that
\* have deleted_at, and a board whose delete_board call was later than that of
\* another board stands before it in the result.
Position(list, id) == CHOOSE i \in 1..Len(list) : list[i].id = id

C14_TrashNewestFirst ==
  ret.cmd = "list_trashed_boards" =>
    /\ IndexIds(ret.val) = DeletedIds(ret.index)
    /\ Len(ret.val) = Cardinality(DeletedIds(ret.index))
    /\ \A a \in procs.calls, b \in procs.calls :
         (a.at > b.at /\ a.id \in IndexIds(ret.val) /\ b.id \in IndexIds(ret.val))
           => Position(ret.val, a.id) < Position(ret.val, b.id)

\* Two boards deleted at different times are both in a list of the trash.
C14_Witness ==
  /\ ret.cmd = "list_trashed_boards"
  /\ \E a \in procs.calls, b \in procs.calls :
       a.at > b.at /\ {a.id, b.id} \subseteq IndexIds(ret.val)

\* C15: with one writer, at every step of write_board_atomic and of
\* write_index_atomic, and after a crash at any of them, the destination holds
\* the complete old text, does not exist, or holds the complete new text; the
\* only other file the call leaves behind is the temp file.
DestinationOf(w) ==
  read_file(Now, procs.writers[w].target, procs.writers[w].id, "dest")

C15_CrashLeavesOldAbsentOrNew ==
  \A w \in Writers :
    procs.writers[w].pc # "idle" =>
      /\ DestinationOf(w) \in {procs.writers[w].old, None, Some(procs.writers[w].text)}
      /\ DestinationOf(w) # Some(Unfinished(procs.writers[w].target))
      /\ DOMAIN fs.files \subseteq
           {board_file(board_dir(CrashId)), tmp_path("board", CrashId), tmp_path("index", <<>>)}

\* The process died between the removal of an old destination and the
\* rename, with the temp file written to the end.
C15_Witness ==
  \E w \in Writers :
    /\ procs.writers[w].pc = "crashed"
    /\ procs.writers[w].old # None
    /\ DestinationOf(w) = None
    /\ read_file(Now, procs.writers[w].target, procs.writers[w].id, "tmp")
         = Some(procs.writers[w].text)

\* C16: whatever the interleaving of the steps of two save_board calls, the
\* text a reader gets from board.json is a complete document that one of the
\* writers wrote (the empty board of create_board or of ensure_board_file,
\* or one of the two saved documents).
WrittenTexts ==
  {to_json(RaceDoc(w)) : w \in {"w1", "w2"}}
    \cup {to_json(empty_board(RaceId, n)) : n \in {<<"T">>, <<"N">>}}

C16_ReaderSeesCompleteDocument ==
  ret.cmd = "read_to_string" => ret.val \in WrittenTexts

\* A reader has read board.json while both calls were in progress.
C16_Witness ==
  /\ ret.cmd = "read_to_string"
  /\ \A w \in Writers : procs.writers[w].pc \notin {"idle", "returned"}

\* C17: when both save_board calls have returned, board.json exists and holds
\* the document of one of the two calls, and the call whose rename succeeded
\* last returned Ok.
BothReturned == \A w \in Writers : procs.writers[w].pc = "returned"

C17_LastWriterWins ==
  BothReturned =>
    /\ read_file(Now, "board", RaceId, "dest")
         \in {Some(to_json(RaceDoc(w))) : w \in {"w1", "w2"}}
    /\ procs.last_rename \in Writers
    /\ procs.writers[procs.last_rename].err = NoErr

\* Both calls have returned after their steps were interleaved: the second
\* call entered before the first returned.
C17_Witness ==
  /\ BothReturned
  /\ \E w \in Writers : procs.writers[w].err # NoErr

\* C21: an id comes into existence (gets a directory under the root or the
\* trash, or an entry in the index) only in a step of create_board that
\* returns this id; load_board, save_board, get_assets_dir and the other
\* commands called with a valid id that names no board create nothing.
C21_OnlyCreateBoardCreates ==
  [][\A id \in PresentIds' \ PresentIds :
       ret'.cmd = "create_board" /\ ret'.id = id]_vars

\* C22: an index that a list command reconciled (sync_index_with_fs) and that
\* reconcile no longer changes has the same entries as a rebuild on the same filesystem: the same ids, names
\* and presence of deleted_at, each as many times.
EntryShape(b) == [id |-> b.id, name |-> b.name, deleted |-> b.deleted_at # None]

ShapeCount(boards, sh) ==
  Cardinality({i \in 1..Len(boards) : EntryShape(boards[i]) = sh})

SameEntries(x, y) ==
  \A sh \in {EntryShape(x[i]) : i \in 1..Len(x)} \cup {EntryShape(y[i]) : i \in 1..Len(y)} :
    ShapeCount(x, sh) = ShapeCount(y, sh)

ScanOrders ==
  Orders(Candidates(fs, <<>>)) \X Orders(Candidates(fs, trash_dir))

Reconciled ==
  /\ indexFile.exists /\ indexFile.wellformed
  /\ \A o \in ScanOrders :
       sync_index_with_fs(fs, indexFile.boards, o[1], o[2]).boards = indexFile.boards

C22_ReconcileReachesRebuild ==
  (Reconciled /\ ret.cmd \in BothLists /\ ret.path = "sync"
     /\ ret.index = indexFile.boards) =>
    \A o \in ScanOrders :
      SameEntries(indexFile.boards, rebuild_index_from_fs(fs, o[1], o[2]).boards)

\* A reconciled index over a filesystem where the id has a document under
\* the root and under the trash, reached by a list command.
C22_Witness ==
  /\ Reconciled
  /\ ret.cmd \in BothLists
  /\ exists(fs, board_file(<<ArbId>>))
  /\ exists(fs, board_file(<<TRASH, ArbId>>))

\* C23: load_board of a board whose document is stored returns Ok and leaves
\* a document that parses and has the requested id, which is what it returns;
\* an unparsable document is replaced by the empty document, a document with
\* another id is rewritten with the id corrected and its name, cards and
\* columns kept, and a document with the requested id is not written.
StoredText(f, id) == f.files[board_file(board_dir(id))]

LoadCases(stored, left, id, val) ==
  LET parsed == from_json(stored.content)
  IN /\ from_json(left.content) = Some(val)
     /\ val.id = id
     /\ parsed = None => val = empty_board(id, val.name)
     /\ (parsed # None /\ parsed[1].id # id) => val = [parsed[1] EXCEPT !.id = id]
     /\ (parsed # None /\ parsed[1].id = id) => (val = parsed[1] /\ left = stored)

C23_LoadRepairsDocument ==
  [][(/\ CommandStep
      /\ ret'.cmd = "load_board"
      /\ ret'.id = LoadId)
       => /\ ret'.err = NoErr
          /\ LoadCases(StoredText(fs, LoadId), StoredText(fs', LoadId), LoadId, ret'.val)]_vars

\* C23 for documents that are text: the same, whenever the stored bytes are
\* valid UTF-8.
C23_LoadRepairsText ==
  [][(/\ CommandStep
      /\ ret'.cmd = "load_board"
      /\ ret'.id = LoadId
      /\ StoredText(fs, LoadId).content # NotUtf8)
       => /\ ret'.err = NoErr
          /\ LoadCases(StoredText(fs, LoadId), StoredText(fs', LoadId), LoadId, ret'.val)]_vars

\* load_board has rewritten a document with cards that was stored at time 1:
\* it corrected its id.
C23_Witness ==
  /\ ret.cmd = "load_board" /\ ret.err = NoErr
  /\ ret.val.cards # <<>>
  /\ StoredText(fs, LoadId).mtime = 2

\* C24: while a board is in the trash (its entry deleted, its directory under
\* the trash, none under the root), a call of load_board, load_chat,
\* save_chat, save_image, get_assets_dir, save_board, list_boards or
\* list_trashed_boards, on this or another id, leaves it there, so that a
\* following restore_board finds it and no active directory in the way.
KeepTrashCommands ==
  {"load_board", "load_chat", "save_chat", "save_image", "get_assets_dir",
   "save_board", "list_boards", "list_trashed_boards"}

C24_TrashedStaysRestorable ==
  [][\A id \in PresentIds :
       (CommandStep /\ Trashed(id) /\ ret'.cmd \in KeepTrashCommands)
         => (/\ Trashed(id)'
             /\ restore_check(fs', id) = NoErr
             /\ fs'.files[board_file(<<TRASH, id>>)] = fs.files[board_file(<<TRASH, id>>)])]_vars

\* C25: every board that the index read by empty_trash has as active (what
\* list_boards reports before the call) still has its directory and its
\* document, unchanged, after empty_trash, and is still in the stored index.
ActiveIds(boards) == {boards[i].id : i \in {j \in 1..Len(boards) : is_active(boards[j])}}

C25_EmptyTrashKeepsActive ==
  [][(CommandStep /\ ret'.cmd = "empty_trash" /\ ret'.err = NoErr) =>
       \A id \in ActiveIds(ret'.index) :
         /\ exists(fs', board_dir(id))
         /\ exists(fs', board_file(board_dir(id)))
         /\ fs'.files[board_file(board_dir(id))] = fs.files[board_file(board_dir(id))]
         /\ id \in ActiveIds(indexFile'.boards)]_vars

\* The same for every board whose id is not `trash`.
C25_EmptyTrashKeepsOthers ==
  [][(CommandStep /\ ret'.cmd = "empty_trash" /\ ret'.err = NoErr) =>
       \A id \in ActiveIds(ret'.index) \ {TRASH} :
         /\ exists(fs', board_dir(id))
         /\ exists(fs', board_file(board_dir(id)))
         /\ fs'.files[board_file(board_dir(id))] = fs.files[board_file(board_dir(id))]
         /\ id \in ActiveIds(indexFile'.boards)]_vars

\* empty_trash has run while a board was active and another in the trash.
C25_Witness ==
  /\ ret.cmd = "empty_trash"
  /\ ActiveIds(ret.index) \ {TRASH} # {}
  /\ DeletedIds(ret.index) # {}

\* C26: when both create_board calls have returned, they returned different
\* ids, and a list_boards made then has an entry for each call with the id
\* it returned and the name it was given.
BothCreated == \A c \in Creators : procs.creators[c].pc = "returned"

Listed(list, id, name) == \E i \in 1..Len(list) : list[i].id = id /\ list[i].name = name

C26_ConcurrentCreateKeepsBoth ==
  BothCreated =>
    /\ procs.creators["c1"].id # procs.creators["c2"].id
    /\ ret.cmd = "list_boards" =>
         \A c \in Creators : Listed(ret.val, procs.creators[c].id, procs.creators[c].name)

\* C26 for calls that read different clock values: both boards are listed.
C26_DistinctIdsKeepBoth ==
  (BothCreated /\ ret.cmd = "list_boards"
     /\ procs.creators["c1"].id # procs.creators["c2"].id) =>
    \A c \in Creators : Listed(ret.val, procs.creators[c].id, procs.creators[c].name)

\* Both calls read the index before either wrote it, and the boards were
\* listed after both returned.
C26_Witness ==
  /\ BothCreated /\ ret.cmd = "list_boards"
  /\ procs.creators["c1"].index = <<>> /\ procs.creators["c2"].index = <<>>
  /\ procs.creators["c1"].id # procs.creators["c2"].id

====
